---- MODULE Spec2Model ----
(***************************************************************************)
(* A model of the parking-space estimation and reclassification scripts.   *)
(*                                                                         *)
(* Lengths are integers in centimetres, measured in the local planar       *)
(* projection that meters_to_degrees defines (one degree of longitude is   *)
(* METERS_PER_DEGREE_LON * cos(lat) metres, one degree of latitude is      *)
(* METERS_PER_DEGREE_LAT metres).  A ratio of two longitude extents, or of *)
(* two latitude extents, is therefore the ratio of their lengths in        *)
(* centimetres, and floating-point division and int() are modelled by      *)
(* exact integer division.  Angles are integers in half degrees.           *)
(***************************************************************************)
EXTENDS Integers, Sequences, FiniteSets, TLC

VARIABLES
    \* estimate_spaces_in_polygon: arguments
    polygon_coords, capacity, vehicle_type, rotation_angle,
    \* estimate_spaces_in_polygon: locals
    bounds, rows, cols, row, col, space_num, spaces,
    \* estimate_spaces_in_polygon: position ("idle", "call", "loop", "returned")
    \* and returned list, and the exception the except clause caught ("" when
    \* none was raised)
    est_pc, est_result, est_exception,
    \* estimate_spaces_for_facilities: the analysis file, the locals, the two
    \* output files and the position
    analysis, candidates, fi, ai, estimated_features, total_estimated_spaces,
    facility_spaces, output_file, public_file, fac_pc,
    \* estimate_spaces_for_facilities: what fetch_satellite_image returned for
    \* the area ("None" or "image"; "" before the first fetch)
    satellite_image,
    \* detect_parking_orientation: what OpenCV makes of the image, the locals,
    \* the position and the returned angle
    image, angles, hist, dominant_bin, dominant_angle, ori_pc, ori_result,
    \* reclassify_osm_parking_by_size: the files written so far (the input
    \* first), the copies in the public directory, the locals and the position
    files, public_files, data, idx, truck_count, car_count, point_count, rec_pc,
    \* fetch_overpass: the argument, the outcome of each successive request,
    \* the loop variable, the number of requests sent, the time.sleep calls
    \* made, the returned value and the position
    retries, responses, attempt, requests_sent, sleeps, ovp_result, ovp_pc,
    \* extract_osm_parking_spaces_netherlands: the regions, the loop index,
    \* the requests and sleeps in the order they happened, what each query
    \* ended in, and the position
    regions, region_i, timeline, osm_results, nl_pc,
    \* fetch_all: the processes run so far with their return codes, the
    \* local results, the value main() returns and the position
    processes, results, exit_status, fa_pc,
    \* deduplicate_parking_spaces: the argument, the locals, the loop index, the
    \* calls that have returned (argument and returned list) and the position
    all_spaces, seen_ids, unique_spaces, space_i, dedup_calls, dd_pc,
    \* merge_parking_data: the facilities loaded, the grid of find_duplicates (its
    \* cells in insertion order), the loop index over the cells, the dict
    \* duplicates (its items in insertion order), the merged list, the loop index
    \* over the canonical indices and the position
    all_facilities, grid, cell_i, duplicates, merged_facilities, canonical_i, mrg_pc,
    \* split_by_province: data['features'], the loop index, the province lists,
    \* the unassigned list, the sum of line 218 and the position
    split_features, feature_i, province_data, unassigned, total_assigned, spl_pc,
    \* fetch_socrata: the arguments, the locals, the requests sent so far (their
    \* $limit and $offset), the returned list and the position
    params, paginate, offset, all_data, page_requests, pages, soc_result, soc_pc

estVars == <<polygon_coords, capacity, vehicle_type, rotation_angle,
             bounds, rows, cols, row, col, space_num, spaces, est_pc, est_result,
             est_exception>>

facVars == <<analysis, candidates, fi, ai, estimated_features, total_estimated_spaces,
             facility_spaces, output_file, public_file, fac_pc, satellite_image>>

oriVars == <<image, angles, hist, dominant_bin, dominant_angle, ori_pc, ori_result>>

recVars == <<files, public_files, data, idx, truck_count, car_count, point_count, rec_pc>>

ovpVars == <<retries, responses, attempt, requests_sent, sleeps, ovp_result, ovp_pc>>

nlVars == <<regions, region_i, timeline, osm_results, nl_pc>>

faVars == <<processes, results, exit_status, fa_pc>>

ddVars == <<all_spaces, seen_ids, unique_spaces, space_i, dedup_calls, dd_pc>>

mrgVars == <<all_facilities, grid, cell_i, duplicates, merged_facilities, canonical_i, mrg_pc>>

splVars == <<split_features, feature_i, province_data, unassigned, total_assigned, spl_pc>>

socVars == <<params, paginate, offset, all_data, page_requests, pages, soc_result, soc_pc>>

vars == <<estVars, facVars, oriVars, recVars, ovpVars, nlVars, faVars, ddVars, mrgVars, splVars, socVars>>

\* Python's None where a number is expected (angles and counts are >= 0)
None == -1

Max(a, b) == IF a >= b THEN a ELSE b
Min(a, b) == IF a <= b THEN a ELSE b
Abs(a) == IF a >= 0 THEN a ELSE 0 - a

(***************************************************************************)
(* Bounds of the model.                                                    *)
(***************************************************************************)
\* largest side of an input polygon's bounding box, in metres
MaxSide == 15
\* largest capacity passed to the estimator
MaxCapacity == 5
\* largest number of facilities in an analysis file
MaxFacilities == 2
\* largest number of parking areas in an analysis file, all facilities together
MaxAreas == 2
\* largest number of line segments detected in an image
MaxLines == 2
\* largest number of features in a file of parking spaces
MaxFeatures == 2
\* largest number of runs of the reclassifier, each on the output of the last
MaxRuns == 2
\* largest value of the argument retries of fetch_overpass
MaxRetries == 3
\* largest number of features passed to deduplicate_parking_spaces
MaxSpaces == 3
\* largest number of facilities merge_parking_data has loaded
MaxMerged == 3
\* largest number of features in the file split_by_province loads
MaxSplit == 3
\* largest number of requests of one call of fetch_socrata
MaxPages == 5
\* largest number of calls of deduplicate_parking_spaces, each on the list the
\* call before returned
MaxDedupCalls == 2

(***************************************************************************)
(* Program constants (src/estimate_parking_spaces.py), in centimetres.     *)
(***************************************************************************)
TRUCK_SPACE_WIDTH == 400
TRUCK_SPACE_LENGTH == 1500
VAN_SPACE_WIDTH == 250
VAN_SPACE_LENGTH == 500
\* SIZE_THRESHOLD_M2 = 30.0 square metres, in square centimetres
SIZE_THRESHOLD_M2 == 300000
\* spacing_factor = 1.2, as tenths
spacing_factor == 12

(***************************************************************************)
(* Input polygons: rings of <<x, y>> vertices.  "rect" is an axis-aligned  *)
(* rectangle, "triL" and "triR" are right triangles with the right angle   *)
(* at the lower left and the lower right corner, "open" is a rectangle     *)
(* whose ring does not repeat the first vertex, and "bad" has two          *)
(* vertices only (shapely's Polygon() raises on it).                       *)
(***************************************************************************)
Shapes == {"rect", "triL", "triR", "open", "bad"}

MakePolygon(shape, w, h) ==
    LET x0 == 1000
        y0 == 2000
        a == <<x0, y0>>
        b == <<x0 + w, y0>>
        c == <<x0 + w, y0 + h>>
        d == <<x0, y0 + h>>
    IN  CASE shape = "rect" -> <<a, b, c, d, a>>
          [] shape = "triL" -> <<a, b, d, a>>
          [] shape = "triR" -> <<a, b, c, a>>
          [] shape = "open" -> <<a, b, c, d>>
          [] OTHER -> <<a, b>>

Sides == {100 * s : s \in 0..MaxSide}

Polygons == {MakePolygon(sh, w, h) : sh \in Shapes, w \in Sides, h \in Sides}

VehicleTypes == {"truck", "lzv", "car"}

\* None, 0 and a non-zero angle (45 degrees), in half degrees
RotationAngles == {None, 0, 90}

(***************************************************************************)
(* shapely: Polygon(coords), .bounds, .contains(Point)                     *)
(***************************************************************************)
\* Polygon() raises ValueError on fewer than three coordinates
PolygonRaises(coords) == Len(coords) < 3

\* Polygon() closes a ring whose last vertex differs from the first
Ring(coords) ==
    IF coords[1] = coords[Len(coords)] THEN coords ELSE Append(coords, coords[1])

SetMin(S) == CHOOSE m \in S : \A x \in S : m <= x
SetMax(S) == CHOOSE m \in S : \A x \in S : m >= x

\* polygon.bounds = (minx, miny, maxx, maxy)
Bounds(coords) ==
    LET xs == {coords[i][1] : i \in 1..Len(coords)}
        ys == {coords[i][2] : i \in 1..Len(coords)}
    IN  <<SetMin(xs), SetMin(ys), SetMax(xs), SetMax(ys)>>

\* The point (px/dx, py/dy) against the edge from a to b; the edge's vertices
\* are scaled by dx and dy so that the test is on integers.
OnEdge(a, b, px, py, dx, dy) ==
    LET ax == a[1] * dx
        ay == a[2] * dy
        bx == b[1] * dx
        by == b[2] * dy
    IN  /\ (bx - ax) * (py - ay) = (by - ay) * (px - ax)
        /\ Min(ax, bx) <= px /\ px <= Max(ax, bx)
        /\ Min(ay, by) <= py /\ py <= Max(ay, by)

\* The ray from the point towards +x crosses the edge from a to b.
CrossesEdge(a, b, px, py, dx, dy) ==
    LET ax == a[1] * dx
        ay == a[2] * dy
        bx == b[1] * dx
        by == b[2] * dy
        d == by - ay
    IN  /\ (ay > py) # (by > py)
        /\ IF d > 0 THEN (px - ax) * d < (py - ay) * (bx - ax)
                    ELSE (px - ax) * d > (py - ay) * (bx - ax)

\* polygon.contains(Point(px/dx, py/dy)): the point is in the interior of the
\* polygon; a point of the boundary is not contained.
Contains(coords, px, py, dx, dy) ==
    LET ring == Ring(coords)
        edges == 1..(Len(ring) - 1)
        crossing == {i \in edges : CrossesEdge(ring[i], ring[i + 1], px, py, dx, dy)}
    IN  /\ \A i \in edges : ~OnEdge(ring[i], ring[i + 1], px, py, dx, dy)
        /\ Cardinality(crossing) % 2 = 1

(***************************************************************************)
(* estimate_spaces_in_polygon                                              *)
(***************************************************************************)
\* "Choose dimensions based on vehicle type": only 'truck' selects the truck
\* dimensions, every other value takes the else branch.
space_width_m(vt) == IF vt = "truck" THEN TRUCK_SPACE_WIDTH ELSE VAN_SPACE_WIDTH

space_length_m(vt) == IF vt = "truck" THEN TRUCK_SPACE_LENGTH ELSE VAN_SPACE_LENGTH

\* width_deg and height_deg of the bounding box b
width_deg(b) == b[3] - b[1]

height_deg(b) == b[4] - b[2]

\* Mutant of GridCols: the spacing factor is left out.
GridCols_NoSpacing(b, vt) == Max(1, width_deg(b) \div space_width_m(vt))

\* cols = max(1, int(width_deg / space_width_deg)), the spaced width being
\* space_width_m * spacing_factor
GridCols(b, vt) ==
    Max(1, (width_deg(b) * 10) \div (space_width_m(vt) * spacing_factor))

\* rows = max(1, int(height_deg / space_length_deg))
GridRows(b, vt) ==
    Max(1, (height_deg(b) * 10) \div (space_length_m(vt) * spacing_factor))

\* max(1, int(n * math.sqrt(cap / total))): the largest k with
\* k * k * total <= n * n * cap, and at least 1
ScaleDim(n, cap, total) ==
    Max(1, CHOOSE k \in 0..(n * cap) :
               /\ k * k * total <= n * n * cap
               /\ (k + 1) * (k + 1) * total > n * n * cap)

\* "If capacity is specified, adjust grid to match"
AdjustedRows(r, c, cap) ==
    IF cap > 0 /\ r * c > 0 THEN ScaleDim(r, cap, r * c) ELSE r

AdjustedCols(r, c, cap) ==
    IF cap > 0 /\ r * c > 0 THEN ScaleDim(c, cap, r * c) ELSE c

\* The centre of cell (r, c): center_lon as a numerator over 2 * cols and
\* center_lat as a numerator over 2 * rows.
CenterLon(p, c) == p.bounds[1] * 2 * p.cols + (2 * c + 1) * width_deg(p.bounds)

CenterLat(p, r) == p.bounds[2] * 2 * p.rows + (2 * r + 1) * height_deg(p.bounds)

\* Mutant of CenterInside: a centre on the boundary passes too (covers() in
\* place of contains()).
CenterInside_OrOnBoundary(p, r, c) ==
    LET ring == Ring(p.coords)
    IN  \/ Contains(p.coords, CenterLon(p, c), CenterLat(p, r), 2 * p.cols, 2 * p.rows)
        \/ \E i \in 1..(Len(ring) - 1) :
              OnEdge(ring[i], ring[i + 1], CenterLon(p, c), CenterLat(p, r),
                     2 * p.cols, 2 * p.rows)

\* "Check if center is inside polygon"
CenterInside(p, r, c) ==
    Contains(p.coords, CenterLon(p, c), CenterLat(p, r), 2 * p.cols, 2 * p.rows)

\* affinity.rotate(space_polygon, angle, origin): the rotated ring, kept as the
\* application itself
Rotate(coords, angle, origin) ==
    [rotated |-> coords, angle |-> angle, origin |-> origin]

\* The rectangle of a space with the spacing factor applied to its half-extents
SpaceCoords_Spaced(p, r, c) ==
    LET cx == CenterLon(p, c)
        cy == CenterLat(p, r)
        half_width == (space_width_m(p.vt) * p.cols * spacing_factor) \div 10
        half_length == (space_length_m(p.vt) * p.rows * spacing_factor) \div 10
        rect == << <<cx - half_width, cy - half_length>>,
                   <<cx + half_width, cy - half_length>>,
                   <<cx + half_width, cy + half_length>>,
                   <<cx - half_width, cy + half_length>>,
                   <<cx - half_width, cy - half_length>> >>
    IN  IF p.rot # None /\ p.rot # 0
        THEN Rotate(rect, 0 - p.rot, <<cx, cy>>)
        ELSE rect

\* The rectangle of a space and its rotation.  Vertices are numerators over
\* 2 * cols (x) and 2 * rows (y), so half_width is space_width_m * cols and
\* half_length is space_length_m * rows.
SpaceCoords(p, r, c) ==
    LET cx == CenterLon(p, c)
        cy == CenterLat(p, r)
        half_width == space_width_m(p.vt) * p.cols
        half_length == space_length_m(p.vt) * p.rows
        rect == << <<cx - half_width, cy - half_length>>,
                   <<cx + half_width, cy - half_length>>,
                   <<cx + half_width, cy + half_length>>,
                   <<cx - half_width, cy + half_length>>,
                   <<cx - half_width, cy - half_length>> >>
    IN  IF p.rot # None /\ p.rot # 0
        THEN Rotate(rect, 0 - p.rot, <<cx, cy>>)
        ELSE rect

\* Mutant of SpaceData: the space is numbered by its place in the grid.
SpaceData_CellIndex(p, r, c, n) ==
    [space_number |-> r * p.cols + c + 1,
     center_lat |-> CenterLat(p, r),
     center_lon |-> CenterLon(p, c),
     width_m |-> space_width_m(p.vt),
     length_m |-> space_length_m(p.vt),
     area_m2 |-> space_width_m(p.vt) * space_length_m(p.vt),
     polygon_coords |-> SpaceCoords(p, r, c),
     estimated |-> TRUE]

\* space_data of cell (r, c) numbered n; the rotation_angle key exists only
\* when an angle was passed
SpaceData(p, r, c, n) ==
    LET base == [space_number |-> n,
                 center_lat |-> CenterLat(p, r),
                 center_lon |-> CenterLon(p, c),
                 width_m |-> space_width_m(p.vt),
                 length_m |-> space_length_m(p.vt),
                 area_m2 |-> space_width_m(p.vt) * space_length_m(p.vt),
                 polygon_coords |-> SpaceCoords(p, r, c),
                 estimated |-> TRUE]
    IN  IF p.rot # None THEN base @@ [rotation_angle |-> p.rot] ELSE base

\* Mutant of CapacityReached: the check is off by one.
CapacityReached_OffByOne(cap, num) == cap > 0 /\ num >= cap

\* "Stop if we've reached capacity"
CapacityReached(cap, num) == cap > 0 /\ num > cap

\* The end of one pass of the inner loop's body that did not break: the next
\* column, or, the row exhausted, the outer loop's capacity check and the
\* next row; the loops over, the function returns.
NextCell(p, s) ==
    IF s.col + 1 < p.cols
    THEN [s EXCEPT !.col = @ + 1]
    ELSE IF CapacityReached(p.capacity, s.space_num) \/ s.row + 1 >= p.rows
         THEN [s EXCEPT !.pc = "return"]
         ELSE [s EXCEPT !.row = @ + 1, !.col = 0]

\* One pass of the inner loop's body, for cell (s.row, s.col)
StepCell(p, s) ==
    IF ~CenterInside(p, s.row, s.col)
    THEN NextCell(p, s)
    ELSE LET t == [s EXCEPT !.spaces = Append(@, SpaceData(p, s.row, s.col, s.space_num)),
                            !.space_num = @ + 1]
         IN  IF CapacityReached(p.capacity, t.space_num)
             THEN [t EXCEPT !.pc = "return"]
             ELSE NextCell(p, t)

\* The arguments and the grid of a call
Params(coords, cap, vt, rot) ==
    LET b == Bounds(coords)
        r == GridRows(b, vt)
        c == GridCols(b, vt)
    IN  [coords |-> coords, capacity |-> cap, vt |-> vt, rot |-> rot, bounds |-> b,
         rows |-> AdjustedRows(r, c, cap), cols |-> AdjustedCols(r, c, cap)]

\* "Generate grid of spaces": spaces = [], space_num = 1
LoopStart == [row |-> 0, col |-> 0, space_num |-> 1, spaces |-> <<>>, pc |-> "loop"]

RECURSIVE RunLoop(_, _)
RunLoop(p, s) == IF s.pc = "return" THEN s.spaces ELSE RunLoop(p, StepCell(p, s))

\* The whole call: the list returned
EstimateSpaces(coords, cap, vt, rot) ==
    IF PolygonRaises(coords) THEN <<>> ELSE RunLoop(Params(coords, cap, vt, rot), LoopStart)

CurrentParams ==
    [coords |-> polygon_coords, capacity |-> capacity, vt |-> vehicle_type,
     rot |-> rotation_angle, bounds |-> bounds, rows |-> rows, cols |-> cols]

CurrentLoop ==
    [row |-> row, col |-> col, space_num |-> space_num, spaces |-> spaces, pc |-> est_pc]

EstCall ==
    /\ polygon_coords \in Polygons
    /\ capacity \in 0..MaxCapacity
    /\ vehicle_type \in VehicleTypes
    /\ rotation_angle \in RotationAngles
    /\ bounds = <<>> /\ rows = 0 /\ cols = 0 /\ row = 0 /\ col = 0
    /\ space_num = 0 /\ spaces = <<>>
    /\ est_pc = "call" /\ est_result = <<>> /\ est_exception = ""

\* Lines 218-258: the dimensions, the polygon, the grid
EstGrid ==
    /\ est_pc = "call"
    /\ ~PolygonRaises(polygon_coords)
    /\ LET p == Params(polygon_coords, capacity, vehicle_type, rotation_angle)
       IN  bounds' = p.bounds /\ rows' = p.rows /\ cols' = p.cols
    /\ row' = LoopStart.row /\ col' = LoopStart.col
    /\ space_num' = LoopStart.space_num /\ spaces' = LoopStart.spaces
    /\ est_pc' = LoopStart.pc
    /\ UNCHANGED <<polygon_coords, capacity, vehicle_type, rotation_angle, est_result,
                   est_exception>>
    /\ UNCHANGED <<facVars, oriVars, recVars, ovpVars, nlVars, faVars, ddVars, mrgVars, splVars, socVars>>

\* the except clause returning the list built so far
ExceptResult_Partial(built) == built

\* Lines 323-325: "except Exception as e: ... return []"
ExceptResult(built) == <<>>

\* Lines 228 and 323-325: Polygon() raises inside the try block
EstError ==
    /\ est_pc = "call"
    /\ PolygonRaises(polygon_coords)
    /\ est_exception' = "ValueError"
    /\ est_result' = ExceptResult(spaces)
    /\ est_pc' = "returned"
    /\ UNCHANGED <<polygon_coords, capacity, vehicle_type, rotation_angle,
                   bounds, rows, cols, row, col, space_num, spaces>>
    /\ UNCHANGED <<facVars, oriVars, recVars, ovpVars, nlVars, faVars, ddVars, mrgVars, splVars, socVars>>

\* Lines 260-319: one cell of the grid
EstCell ==
    /\ est_pc = "loop"
    /\ LET s == StepCell(CurrentParams, CurrentLoop)
       IN  /\ row' = s.row /\ col' = s.col
           /\ space_num' = s.space_num /\ spaces' = s.spaces
           /\ est_pc' = s.pc
    /\ UNCHANGED <<polygon_coords, capacity, vehicle_type, rotation_angle,
                   bounds, rows, cols, est_result, est_exception>>
    /\ UNCHANGED <<facVars, oriVars, recVars, ovpVars, nlVars, faVars, ddVars, mrgVars, splVars, socVars>>

\* Lines 260-319 and 323-325: a call of the loop body (shapely's GEOS calls,
\* the allocation of a space) raises while the list is being built
EstCellRaises ==
    /\ est_pc = "loop"
    /\ est_exception' = "MemoryError"
    /\ est_result' = ExceptResult(spaces)
    /\ est_pc' = "returned"
    /\ UNCHANGED <<polygon_coords, capacity, vehicle_type, rotation_angle,
                   bounds, rows, cols, row, col, space_num, spaces>>
    /\ UNCHANGED <<facVars, oriVars, recVars, ovpVars, nlVars, faVars, ddVars, mrgVars, splVars, socVars>>

\* Line 321: return spaces
EstReturn ==
    /\ est_pc = "return"
    /\ est_result' = spaces
    /\ est_pc' = "returned"
    /\ UNCHANGED <<polygon_coords, capacity, vehicle_type, rotation_angle,
                   bounds, rows, cols, row, col, space_num, spaces, est_exception>>
    /\ UNCHANGED <<facVars, oriVars, recVars, ovpVars, nlVars, faVars, ddVars, mrgVars, splVars, socVars>>

(***************************************************************************)
(* estimate_spaces_for_facilities                                          *)
(***************************************************************************)
RECURSIVE Shoelace(_, _)
Shoelace(ring, i) ==
    IF i >= Len(ring) THEN 0
    ELSE ring[i][1] * ring[i + 1][2] - ring[i + 1][1] * ring[i][2] + Shoelace(ring, i + 1)

\* calculate_polygon_area_m2: the polygon's area, 0 when Polygon() raises
calculate_polygon_area_m2(coords) ==
    IF PolygonRaises(coords) THEN 0 ELSE Abs(Shoelace(Ring(coords), 1)) \div 2

\* An area of the analysis file without a 'geometry' key
NoGeometry == <<>>

\* The geometries of the parking areas of the analysis file: rectangles of
\* 0, 25 and 30 square metres
AreaGeometries ==
    {MakePolygon("rect", 0, 600), MakePolygon("rect", 500, 500),
     MakePolygon("rect", 500, 600)}

\* The parking areas of the analysis file, labelled 'truck' or 'lzv' as
\* classify_parking_from_osm labels them: areas without a capacity tag, an
\* area with a capacity tag, an area without geometry, and an area whose
\* ring has two vertices, on which Polygon() raises (the extraction writes
\* rings of three vertices or more; this one stands for a file that was
\* edited or written otherwise).
AreaKinds ==
    {[capacity |-> 0, vehicle_type |-> "truck", geometry |-> MakePolygon("rect", 0, 600)],
     [capacity |-> 0, vehicle_type |-> "lzv", geometry |-> MakePolygon("rect", 500, 500)],
     [capacity |-> 0, vehicle_type |-> "truck", geometry |-> MakePolygon("rect", 500, 600)],
     [capacity |-> 0, vehicle_type |-> "lzv", geometry |-> MakePolygon("rect", 500, 600)],
     [capacity |-> 2, vehicle_type |-> "truck", geometry |-> MakePolygon("rect", 500, 600)],
     [capacity |-> 0, vehicle_type |-> "truck", geometry |-> NoGeometry],
     [capacity |-> 0, vehicle_type |-> "truck", geometry |-> MakePolygon("bad", 500, 600)]}

RECURSIVE SumTo(_, _)
SumTo(f, n) == IF n = 0 THEN 0 ELSE f[n] + SumTo(f, n - 1)

\* extract_parking_from_osm: total_capacity is the sum of the areas' capacities
TotalCapacity(areas) == SumTo([i \in 1..Len(areas) |-> areas[i].capacity], Len(areas))

MakeFacility(id, areas, isc) ==
    [facility_id |-> id,
     osm_parking_areas |-> [k \in 1..Len(areas) |-> areas[k] @@ [osm_id |-> <<id, k>>]],
     total_capacity |-> TotalCapacity(areas),
     individual_spaces_count |-> isc]

\* Mutant of AreaVehicleType: the threshold itself counts as too small.
AreaVehicleType_Inclusive(tagged, area_m2) ==
    IF area_m2 > 0 /\ area_m2 <= SIZE_THRESHOLD_M2 /\ tagged \in {"truck", "lzv"}
    THEN "car"
    ELSE tagged

\* "Override if area is too small for trucks"
AreaVehicleType(tagged, area_m2) ==
    IF area_m2 > 0 /\ area_m2 < SIZE_THRESHOLD_M2 /\ tagged \in {"truck", "lzv"}
    THEN "car"
    ELSE tagged

\* space_area of the capacity estimate: only 'truck' selects the truck area
SpaceArea(vt) ==
    IF vt = "truck" THEN TRUCK_SPACE_WIDTH * TRUCK_SPACE_LENGTH
                    ELSE VAN_SPACE_WIDTH * VAN_SPACE_LENGTH

\* "Get capacity (use area capacity or estimate from area size)"
TargetCapacity(area, facility, area_m2, vt) ==
    LET own == area.capacity
        shared == IF own = 0 /\ facility.total_capacity > 0
                  THEN facility.total_capacity \div Len(facility.osm_parking_areas)
                  ELSE own
    IN  IF shared = 0 /\ area_m2 > 0
        THEN (area_m2 * 6) \div (10 * SpaceArea(vt))
        ELSE shared

\* fetch_satellite_image: None when the fetch failed, or an image
SatelliteImages == {"None", "image"}

\* fetch_satellite_image and detect_parking_orientation: no image or no angle
\* (None), or a detected angle (45 degrees)
DetectedAngles == {None, 90}

\* The features of an area, emitted only when an angle was detected
Features_OnlyAnalyzed(facility, area, vt, rot, result) ==
    IF rot = None THEN <<>>
    ELSE [k \in 1..Len(result) |->
            [facility_id |-> facility.facility_id,
             parking_area_osm_id |-> area.osm_id,
             space_number |-> result[k].space_number,
             vehicle_type |-> vt,
             width_m |-> result[k].width_m,
             length_m |-> result[k].length_m,
             area_m2 |-> result[k].area_m2,
             rotation_angle |-> result[k].rotation_angle,
             satellite_analyzed |-> TRUE,
             coordinates |-> result[k].polygon_coords]]

\* The GeoJSON features of one area's spaces
Features(facility, area, vt, rot, result) ==
    [k \in 1..Len(result) |->
        [facility_id |-> facility.facility_id,
         parking_area_osm_id |-> area.osm_id,
         space_number |-> result[k].space_number,
         vehicle_type |-> vt,
         width_m |-> result[k].width_m,
         length_m |-> result[k].length_m,
         area_m2 |-> result[k].area_m2,
         rotation_angle |-> IF "rotation_angle" \in DOMAIN result[k]
                            THEN result[k].rotation_angle ELSE None,
         satellite_analyzed |-> rot # None,
         coordinates |-> result[k].polygon_coords]]

\* The estimator is not running
EstIdle ==
    /\ polygon_coords = <<>> /\ capacity = 0 /\ vehicle_type = "" /\ rotation_angle = None
    /\ bounds = <<>> /\ rows = 0 /\ cols = 0 /\ row = 0 /\ col = 0
    /\ space_num = 0 /\ spaces = <<>>
    /\ est_pc = "idle" /\ est_result = <<>> /\ est_exception = ""

\* The analysis file as extract_osm_parking_south_holland writes it
FacLoad ==
    /\ \E n \in 0..MaxFacilities :
          \E cnt \in [1..n -> 0..MaxAreas], isc \in [1..n -> {0, 1}] :
              /\ SumTo(cnt, n) <= MaxAreas
              /\ \E fill \in [1..SumTo(cnt, n) -> AreaKinds] :
                    analysis =
                        [i \in 1..n |->
                            MakeFacility(i, [k \in 1..cnt[i] |-> fill[SumTo(cnt, i - 1) + k]],
                                         isc[i])]
    /\ candidates = <<>> /\ fi = 0 /\ ai = 0
    /\ estimated_features = <<>> /\ total_estimated_spaces = 0 /\ facility_spaces = 0
    /\ output_file = None /\ public_file = None
    /\ satellite_image = ""
    /\ fac_pc = "select"

\* The facilities of a sequence that have parking areas and no individual spaces
RECURSIVE SelectCandidates(_)
SelectCandidates(fs) ==
    IF fs = <<>> THEN <<>>
    ELSE IF Len(Head(fs).osm_parking_areas) > 0 /\ Head(fs).individual_spaces_count = 0
         THEN <<Head(fs)>> \o SelectCandidates(Tail(fs))
         ELSE SelectCandidates(Tail(fs))

\* Lines 345-356: the candidates
FacSelect ==
    /\ fac_pc = "select"
    /\ candidates' = SelectCandidates(analysis)
    /\ estimated_features' = <<>>
    /\ total_estimated_spaces' = 0
    /\ fi' = 1
    /\ fac_pc' = "facility"
    /\ UNCHANGED <<analysis, ai, facility_spaces, output_file, public_file>>
    /\ UNCHANGED <<satellite_image, estVars, oriVars, recVars, ovpVars, nlVars, faVars, ddVars, mrgVars, splVars, socVars>>

\* Lines 358-364: the next facility of the loop, or the loop's end
FacBegin ==
    /\ fac_pc = "facility"
    /\ IF fi <= Len(candidates)
       THEN facility_spaces' = 0 /\ ai' = 1 /\ fac_pc' = "area"
       ELSE fac_pc' = "write" /\ UNCHANGED <<facility_spaces, ai>>
    /\ UNCHANGED <<analysis, candidates, fi, estimated_features, total_estimated_spaces,
                   output_file, public_file>>
    /\ UNCHANGED <<satellite_image, estVars, oriVars, recVars, ovpVars, nlVars, faVars, ddVars, mrgVars, splVars, socVars>>

\* Lines 366-452: one parking area of the facility
FacArea ==
    /\ fac_pc = "area"
    /\ ai <= Len(candidates[fi].osm_parking_areas)
    /\ LET facility == candidates[fi]
           area == facility.osm_parking_areas[ai]
       IN  IF area.geometry = NoGeometry
           THEN UNCHANGED <<estimated_features, facility_spaces, satellite_image>>
                /\ UNCHANGED estVars
           ELSE \E img \in SatelliteImages :
                \E rot \in IF img = "None" THEN {None} ELSE DetectedAngles :
                   LET coords == area.geometry
                       area_m2 == calculate_polygon_area_m2(coords)
                       vt == AreaVehicleType(area.vehicle_type, area_m2)
                       cap == TargetCapacity(area, facility, area_m2, vt)
                       result == EstimateSpaces(coords, cap, vt, rot)
                   IN  /\ satellite_image' = img
                       /\ polygon_coords' = coords /\ capacity' = cap
                       /\ vehicle_type' = vt /\ rotation_angle' = rot
                       /\ est_result' = result /\ est_pc' = "returned"
                       /\ est_exception' = IF PolygonRaises(coords) THEN "ValueError" ELSE ""
                       /\ UNCHANGED <<bounds, rows, cols, row, col, space_num, spaces>>
                       /\ estimated_features' =
                              estimated_features \o Features(facility, area, vt, rot, result)
                       /\ facility_spaces' = facility_spaces + Len(result)
    /\ ai' = ai + 1
    /\ UNCHANGED <<analysis, candidates, fi, total_estimated_spaces, output_file,
                   public_file, fac_pc>>
    /\ UNCHANGED <<oriVars, recVars, ovpVars, nlVars, faVars, ddVars, mrgVars, splVars, socVars>>

\* Lines 454-456: the facility's areas are done
FacEnd ==
    /\ fac_pc = "area"
    /\ ai > Len(candidates[fi].osm_parking_areas)
    /\ total_estimated_spaces' = total_estimated_spaces + facility_spaces
    /\ fi' = fi + 1
    /\ fac_pc' = "facility"
    /\ UNCHANGED <<analysis, candidates, ai, estimated_features, facility_spaces,
                   output_file, public_file>>
    /\ UNCHANGED <<satellite_image, estVars, oriVars, recVars, ovpVars, nlVars, faVars, ddVars, mrgVars, splVars, socVars>>

\* Lines 458-472: the two GeoJSON files
FacWrite ==
    /\ fac_pc = "write"
    /\ output_file' = estimated_features
    /\ public_file' = estimated_features
    /\ fac_pc' = "summary"
    /\ UNCHANGED <<analysis, candidates, fi, ai, estimated_features,
                   total_estimated_spaces, facility_spaces>>
    /\ UNCHANGED <<satellite_image, estVars, oriVars, recVars, ovpVars, nlVars, faVars, ddVars, mrgVars, splVars, socVars>>

\* Lines 474-483: the summary
FacSummary ==
    /\ fac_pc = "summary"
    /\ Len(candidates) > 0
    /\ fac_pc' = "done"
    /\ UNCHANGED <<analysis, candidates, fi, ai, estimated_features,
                   total_estimated_spaces, facility_spaces, output_file, public_file>>
    /\ UNCHANGED <<satellite_image, estVars, oriVars, recVars, ovpVars, nlVars, faVars, ddVars, mrgVars, splVars, socVars>>

\* Line 480: total_estimated_spaces / len(candidates) raises ZeroDivisionError
\* when there is no candidate
FacSummaryRaises ==
    /\ fac_pc = "summary"
    /\ Len(candidates) = 0
    /\ fac_pc' = "raised"
    /\ UNCHANGED <<analysis, candidates, fi, ai, estimated_features,
                   total_estimated_spaces, facility_spaces, output_file, public_file>>
    /\ UNCHANGED <<satellite_image, estVars, oriVars, recVars, ovpVars, nlVars, faVars, ddVars, mrgVars, splVars, socVars>>

\* estimate_spaces_for_facilities is not running
FacIdle ==
    /\ analysis = <<>> /\ candidates = <<>> /\ fi = 0 /\ ai = 0
    /\ estimated_features = <<>> /\ total_estimated_spaces = 0 /\ facility_spaces = 0
    /\ output_file = None /\ public_file = None
    /\ satellite_image = ""
    /\ fac_pc = "idle"

(***************************************************************************)
(* detect_parking_orientation                                              *)
(*                                                                         *)
(* The image enters the model as what OpenCV makes of it: either one of    *)
(* the cv2 calls raises, or HoughLinesP returns the detected line          *)
(* segments, of which the function reads only the direction                *)
(* math.degrees(math.atan2(y2 - y1, x2 - x1)), in (-180, 180] degrees.     *)
(* Angles are in half degrees, so that the bin midpoints (2.5, 7.5, ...)   *)
(* are integers.                                                           *)
(***************************************************************************)
\* the directions a detected line can have: every 12 degrees in (-180, 180]
RawAngles == {24 * k : k \in (0 - 14)..15}

RECURSIVE SeqsUpTo(_, _)
SeqsUpTo(S, n) ==
    IF n = 0 THEN {<<>>}
    ELSE LET shorter == SeqsUpTo(S, n - 1)
         IN shorter \cup {Append(s, x) : s \in {t \in shorter : Len(t) = n - 1}, x \in S}

Images ==
    {[valid |-> FALSE, lines |-> <<>>]}
        \cup {[valid |-> TRUE, lines |-> l] : l \in SeqsUpTo(RawAngles, MaxLines)}

\* the angle left as atan2 gave it
NormalizeAngle_Unshifted(angle) == angle

\* "if angle < 0: angle += 180"
NormalizeAngle(angle) == IF angle < 0 THEN angle + 360 ELSE angle

\* np.histogram(angles, bins=36, range=(0, 180)): 36 bins of 5 degrees, each
\* closed on the left and open on the right but the last, which is closed
hist_bins == 36
hist_range == 360
bin_width == hist_range \div hist_bins

BinOf(angle) ==
    IF angle = hist_range THEN hist_bins - 1 ELSE angle \div bin_width

Histogram(list) ==
    [b \in 0..(hist_bins - 1) |->
        Cardinality({i \in DOMAIN list : list[i] >= 0 /\ list[i] <= hist_range /\ BinOf(list[i]) = b})]

\* np.argmax: the first of the largest
ArgMax(h) ==
    CHOOSE b \in DOMAIN h :
        /\ \A c \in DOMAIN h : h[c] <= h[b]
        /\ \A c \in DOMAIN h : c < b => h[c] < h[b]

\* (bin_edges[b] + bin_edges[b + 1]) / 2
BinMidpoint(b) == (b * bin_width + (b + 1) * bin_width) \div 2

snap_threshold == 20

\* reference angles 0 and 15 degrees, closer together than two thresholds
common_angles_Close == <<0, 30, 180, 270>>

common_angles == <<0, 90, 180, 270>>

\* the snapping loop without abs()
RECURSIVE SnapFrom_NoAbs(_, _)
SnapFrom_NoAbs(angle, k) ==
    IF k > Len(common_angles) THEN angle
    ELSE IF angle - common_angles[k] < snap_threshold THEN common_angles[k]
    ELSE SnapFrom_NoAbs(angle, k + 1)

SnapAngle_NoAbs(angle) == SnapFrom_NoAbs(angle, 1)

\* "for snap_angle in common_angles: if abs(...) < snap_threshold: ...; break"
\* from the k-th reference on
RECURSIVE SnapFrom(_, _)
SnapFrom(angle, k) ==
    IF k > Len(common_angles) THEN angle
    ELSE IF Abs(angle - common_angles[k]) < snap_threshold THEN common_angles[k]
    ELSE SnapFrom(angle, k + 1)

SnapAngle(angle) == SnapFrom(angle, 1)

\* detect_parking_orientation(image) is called
OriCall ==
    /\ image \in Images
    /\ angles = <<>> /\ hist = <<>> /\ dominant_bin = None /\ dominant_angle = None
    /\ ori_pc = "call" /\ ori_result = None

\* one of the cv2 calls raises: "except Exception: return None"
OriRaises ==
    /\ ori_pc = "call" /\ ~image.valid
    /\ ori_result' = None
    /\ ori_pc' = "returned"
    /\ UNCHANGED <<image, angles, hist, dominant_bin, dominant_angle>>
    /\ UNCHANGED <<estVars, facVars, recVars, ovpVars, nlVars, faVars, ddVars, mrgVars, splVars, socVars>>

\* HoughLinesP; "if lines is None or len(lines) == 0: return None"
OriHough ==
    /\ ori_pc = "call" /\ image.valid
    /\ IF Len(image.lines) = 0
       THEN ori_result' = None /\ ori_pc' = "returned"
       ELSE ori_result' = ori_result /\ ori_pc' = "angles"
    /\ UNCHANGED <<image, angles, hist, dominant_bin, dominant_angle>>
    /\ UNCHANGED <<estVars, facVars, recVars, ovpVars, nlVars, faVars, ddVars, mrgVars, splVars, socVars>>

\* one turn of "for line in lines"
OriAngle ==
    /\ ori_pc = "angles" /\ Len(angles) < Len(image.lines)
    /\ angles' = Append(angles, NormalizeAngle(image.lines[Len(angles) + 1]))
    /\ UNCHANGED <<image, hist, dominant_bin, dominant_angle, ori_pc, ori_result>>
    /\ UNCHANGED <<estVars, facVars, recVars, ovpVars, nlVars, faVars, ddVars, mrgVars, splVars, socVars>>

\* the histogram, its largest bin and the midpoint of that bin
OriHistogram ==
    /\ ori_pc = "angles" /\ Len(angles) = Len(image.lines)
    /\ hist' = Histogram(angles)
    /\ dominant_bin' = ArgMax(hist')
    /\ dominant_angle' = BinMidpoint(dominant_bin')
    /\ ori_pc' = "snap"
    /\ UNCHANGED <<image, angles, ori_result>>
    /\ UNCHANGED <<estVars, facVars, recVars, ovpVars, nlVars, faVars, ddVars, mrgVars, splVars, socVars>>

\* the snapping loop and "return dominant_angle"
OriSnap ==
    /\ ori_pc = "snap"
    /\ dominant_angle' = SnapAngle(dominant_angle)
    /\ ori_result' = dominant_angle'
    /\ ori_pc' = "returned"
    /\ UNCHANGED <<image, angles, hist, dominant_bin>>
    /\ UNCHANGED <<estVars, facVars, recVars, ovpVars, nlVars, faVars, ddVars, mrgVars, splVars, socVars>>

\* detect_parking_orientation is not running
OriIdle ==
    /\ image = [valid |-> FALSE, lines |-> <<>>]
    /\ angles = <<>> /\ hist = <<>> /\ dominant_bin = None /\ dominant_angle = None
    /\ ori_pc = "idle" /\ ori_result = None

(***************************************************************************)
(* scripts/reclassify_osm_parking_by_size.py                               *)
(*                                                                         *)
(* Ring vertices are <<x, y>> in millimetres in the local planar           *)
(* projection of calculate_distance.  width_m and length_m are stored in   *)
(* hundredths of a metre (round(., 2)), area_m2 in tenths of a square      *)
(* metre (round(., 1)).  A property a feature does not have is None        *)
(* (numbers) or "absent" (classification_method).                          *)
(***************************************************************************)
TRUCK_MIN_WIDTH == 3500
TRUCK_MIN_LENGTH == 13000

\* the edge lengths of the input rectangles, in millimetres
EdgeLengths == {3400, 3500, 13000}

\* a rectangle whose first edge has length e1 and whose second edge has length e2
RecRect(e1, e2) == <<<<0, 0>>, <<e1, 0>>, <<e1, e2>>, <<0, e2>>, <<0, 0>>>>

Rings ==
    {RecRect(e[1], e[2]) : e \in {p \in EdgeLengths \X EdgeLengths : p[1] # p[2]}}
        \cup {\* 3.496 m x 13.0 m
              RecRect(3496, 13000),
              \* the first two vertices coincide
              RecRect(0, 13000),
              \* 13.0 m x 3.5 m, not parallel to the axes
              <<<<0, 0>>, <<7800, 10400>>, <<5000, 12500>>, <<0 - 2800, 2100>>, <<0, 0>>>>,
              \* three vertices only
              <<<<0, 0>>, <<3500, 0>>, <<3500, 13000>>>>}

\* geometry.coordinates is <<ring>> for a Polygon; the script reads the
\* coordinates of no other geometry, and they are left out
Geometries ==
    {[type |-> "Polygon", coordinates |-> <<r>>] : r \in Rings}
        \cup {[type |-> "Point", coordinates |-> <<>>],
              [type |-> "LineString", coordinates |-> <<>>]}

\* features as extract_osm_parking_spaces_netherlands writes them
InputFeatures ==
    {[geometry |-> g,
      properties |-> [feature_type |-> "osm_parking_space", vehicle_type |-> vt,
                      width_m |-> None, length_m |-> None,
                      area_m2 |-> None, classification_method |-> "absent"]] :
        g \in Geometries, vt \in {"truck", "car"}}

\* math.sqrt on the squares the model's rings have: the largest r in lo..hi
\* with r * r <= n
RECURSIVE SqrtBetween(_, _, _)
SqrtBetween(n, lo, hi) ==
    IF lo = hi THEN lo
    ELSE LET mid == (lo + hi + 1) \div 2
         IN IF mid * mid <= n THEN SqrtBetween(n, mid, hi) ELSE SqrtBetween(n, lo, mid - 1)

Sqrt(n) == SqrtBetween(n, 0, 46340)

calculate_distance(p1, p2) ==
    LET lat_diff == p2[2] - p1[2]
        lon_diff == p2[1] - p1[1]
    IN Sqrt(lat_diff * lat_diff + lon_diff * lon_diff)

\* the dimensions with width the longer and length the shorter edge
calculate_polygon_dimensions_Swapped(coords) ==
    IF Len(coords) < 4
    THEN [width |-> None, length |-> None, area |-> None]
    ELSE LET edge1 == calculate_distance(coords[1], coords[2])
             edge2 == calculate_distance(coords[2], coords[3])
         IN [width |-> Max(edge1, edge2), length |-> Min(edge1, edge2),
             area |-> Min(edge1, edge2) * Max(edge1, edge2)]

calculate_polygon_dimensions(coords) ==
    IF Len(coords) < 4
    THEN [width |-> None, length |-> None, area |-> None]
    ELSE LET edge1 == calculate_distance(coords[1], coords[2])
             edge2 == calculate_distance(coords[2], coords[3])
         IN [width |-> Min(edge1, edge2), length |-> Max(edge1, edge2),
             area |-> Min(edge1, edge2) * Max(edge1, edge2)]

\* Python's truth value of None and of a number
Truthy(x) == x # None /\ x # 0

\* Python's round(): to the nearest multiple of unit, a tie to the even one
Round(x, unit) ==
    LET q == x \div unit
        r == x % unit
    IN IF 2 * r < unit THEN q
       ELSE IF 2 * r > unit THEN q + 1
       ELSE IF q % 2 = 0 THEN q ELSE q + 1

\* the test with a strict comparison of the width
IsTruckSize_Strict(width, length) == width > TRUCK_MIN_WIDTH /\ length >= TRUCK_MIN_LENGTH

\* "if width >= TRUCK_MIN_WIDTH and length >= TRUCK_MIN_LENGTH"
IsTruckSize(width, length) == width >= TRUCK_MIN_WIDTH /\ length >= TRUCK_MIN_LENGTH

\* the area added to the stored one
StoredArea_Accumulated(old, area) ==
    IF old = None THEN Round(area, 100000) ELSE old + Round(area, 100000)

\* "feature['properties']['area_m2'] = round(area, 1)"
StoredArea(old, area) == Round(area, 100000)

\* the Polygon branch is taken and the dimensions are all truthy
Measured(feature) ==
    /\ feature.geometry.type = "Polygon"
    /\ LET dims == calculate_polygon_dimensions(feature.geometry.coordinates[1])
       IN Truthy(dims.width) /\ Truthy(dims.length) /\ Truthy(dims.area)

\* the Polygon branch with a class that a truck tag keeps
ReclassifyPolygon_KeepsTruckTag(feature) ==
    LET dims == calculate_polygon_dimensions(feature.geometry.coordinates[1])
    IN IF Measured(feature)
       THEN [feature EXCEPT
                !.properties.width_m = Round(dims.width, 10),
                !.properties.length_m = Round(dims.length, 10),
                !.properties.area_m2 = StoredArea(@, dims.area),
                !.properties.vehicle_type =
                    IF IsTruckSize(dims.width, dims.length) \/ @ = "truck"
                    THEN "truck" ELSE "car",
                !.properties.classification_method = "size-based (CROW ASVV 2021)"]
       ELSE feature

\* lines 69-88: the Polygon branch of the loop body
ReclassifyPolygon(feature) ==
    LET dims == calculate_polygon_dimensions(feature.geometry.coordinates[1])
    IN IF Measured(feature)
       THEN [feature EXCEPT
                !.properties.width_m = Round(dims.width, 10),
                !.properties.length_m = Round(dims.length, 10),
                !.properties.area_m2 = StoredArea(@, dims.area),
                !.properties.vehicle_type =
                    IF IsTruckSize(dims.width, dims.length) THEN "truck" ELSE "car",
                !.properties.classification_method = "size-based (CROW ASVV 2021)"]
       ELSE feature

\* the Point branch with the class defaulting to car
ReclassifyPoint_DefaultsToCar(feature) ==
    [feature EXCEPT !.properties.classification_method = "tag-based",
                    !.properties.vehicle_type = "car"]

\* lines 90-98: the Point branch of the loop body
ReclassifyPoint(feature) ==
    [feature EXCEPT !.properties.classification_method = "tag-based"]

\* the body of "for feature in data['features']", as far as the feature goes
ReclassifyFeature(feature) ==
    IF feature.geometry.type = "Polygon" THEN ReclassifyPolygon(feature)
    ELSE IF feature.geometry.type = "Point" THEN ReclassifyPoint(feature)
    ELSE feature

\* the feature is counted (a measured Polygon, or a Point)
Counted(feature) == Measured(feature) \/ feature.geometry.type = "Point"

\* the script is started on a file of features
RecStart ==
    /\ files \in {<<fs>> : fs \in SeqsUpTo(InputFeatures, MaxFeatures)}
    /\ public_files = <<>>
    /\ data = <<>> /\ idx = 0
    /\ truck_count = 0 /\ car_count = 0 /\ point_count = 0
    /\ rec_pc = "shell"

\* reclassify_parking_spaces(input_file, output_file) up to the loop; the
\* input file is the newest file: the original, or the output of the run before
RecOpen ==
    /\ rec_pc = "shell" /\ Len(files) <= MaxRuns
    /\ data' = files[Len(files)]
    /\ truck_count' = 0 /\ car_count' = 0 /\ point_count' = 0
    /\ idx' = 1
    /\ rec_pc' = "loop"
    /\ UNCHANGED <<files, public_files>>
    /\ UNCHANGED <<estVars, facVars, oriVars, ovpVars, nlVars, faVars, ddVars, mrgVars, splVars, socVars>>

\* one turn of "for feature in data['features']"
RecFeature ==
    /\ rec_pc = "loop" /\ idx <= Len(data)
    /\ LET feature == data[idx]
           after == ReclassifyFeature(feature)
       IN /\ data' = [data EXCEPT ![idx] = after]
          /\ point_count' = IF feature.geometry.type = "Point"
                            THEN point_count + 1 ELSE point_count
          /\ truck_count' = IF Counted(feature) /\ after.properties.vehicle_type = "truck"
                            THEN truck_count + 1 ELSE truck_count
          /\ car_count' = IF Counted(feature) /\ after.properties.vehicle_type # "truck"
                          THEN car_count + 1 ELSE car_count
    /\ idx' = idx + 1
    /\ UNCHANGED <<files, public_files, rec_pc>>
    /\ UNCHANGED <<estVars, facVars, oriVars, ovpVars, nlVars, faVars, ddVars, mrgVars, splVars, socVars>>

\* the two json.dump calls and the return
RecSave ==
    /\ rec_pc = "loop" /\ idx > Len(data)
    /\ files' = Append(files, data)
    /\ public_files' = Append(public_files, data)
    /\ rec_pc' = "shell"
    /\ UNCHANGED <<data, idx, truck_count, car_count, point_count>>
    /\ UNCHANGED <<estVars, facVars, oriVars, ovpVars, nlVars, faVars, ddVars, mrgVars, splVars, socVars>>

\* the script is not running
RecIdle ==
    /\ files = <<>> /\ public_files = <<>>
    /\ data = <<>> /\ idx = 0
    /\ truck_count = 0 /\ car_count = 0 /\ point_count = 0
    /\ rec_pc = "idle"

(***************************************************************************)
(* scripts/fetch_osm_parking.py: fetch_overpass                            *)
(*                                                                         *)
(* The server enters the model as the outcome of each successive request:  *)
(* HTTP 200 with a JSON body, HTTP 200 with a body response.json() raises  *)
(* on, HTTP 429, another status (500), requests.exceptions.Timeout, or     *)
(* another exception (a connection error).                                 *)
(***************************************************************************)
Outcomes == {"200", "200 no JSON", "429", "500", "Timeout", "ConnectionError"}

\* response.json() of the response to request number k (k = 1, 2, ...)
Body(k) == [elements |-> <<k>>]

\* {"elements": []}
NoElements == [elements |-> <<>>]

\* the wait of a fixed 60 seconds
RateLimitWait_Fixed(a) == 60

\* "wait_time = 60 * (attempt + 1)"
RateLimitWait(a) == 60 * (a + 1)

\* the loop making one attempt more
MoreAttempts_Inclusive(a, n) == a <= n

\* "for attempt in range(retries)"
MoreAttempts(a, n) == a < n

\* the negation of "attempt < retries - 1"
IsLastAttempt(a, n) == ~(a < n - 1)

\* time.sleep(seconds) in the attempt a, after the outcome cause
Slept(a, cause, seconds) == [attempt |-> a, cause |-> cause, seconds |-> seconds]

\* fetch_overpass(query, description, retries) is called
OvpCall ==
    /\ retries \in 0..MaxRetries
    /\ responses \in [1..(MaxRetries + 1) -> Outcomes]
    /\ attempt = 0 /\ requests_sent = 0 /\ sleeps = <<>>
    /\ ovp_result = NoElements /\ ovp_pc = "loop"

\* an attempt whose response has status 429: lines 38-49
OvpRateLimited ==
    /\ ovp_pc = "loop" /\ MoreAttempts(attempt, retries)
    /\ responses[attempt + 1] = "429"
    /\ requests_sent' = requests_sent + 1
    /\ sleeps' = Append(sleeps, Slept(attempt, "429", RateLimitWait(attempt)))
    /\ attempt' = attempt + 1
    /\ UNCHANGED <<retries, responses, ovp_result, ovp_pc>>
    /\ UNCHANGED <<estVars, facVars, oriVars, recVars, nlVars, faVars, ddVars, mrgVars, splVars, socVars>>

\* an attempt whose response has another status than 200 and 429: lines 38-56
OvpHttpError ==
    /\ ovp_pc = "loop" /\ MoreAttempts(attempt, retries)
    /\ responses[attempt + 1] = "500"
    /\ requests_sent' = requests_sent + 1
    /\ IF ~IsLastAttempt(attempt, retries)
       THEN /\ sleeps' = Append(sleeps, Slept(attempt, "500", 30))
            /\ attempt' = attempt + 1
            /\ UNCHANGED <<ovp_result, ovp_pc>>
       ELSE /\ ovp_result' = NoElements
            /\ ovp_pc' = "returned"
            /\ UNCHANGED <<sleeps, attempt>>
    /\ UNCHANGED <<retries, responses>>
    /\ UNCHANGED <<estVars, facVars, oriVars, recVars, nlVars, faVars, ddVars, mrgVars, splVars, socVars>>

\* an attempt whose response has status 200 and a JSON body: lines 38-60
OvpSuccess ==
    /\ ovp_pc = "loop" /\ MoreAttempts(attempt, retries)
    /\ responses[attempt + 1] = "200"
    /\ requests_sent' = requests_sent + 1
    /\ ovp_result' = Body(attempt + 1)
    /\ ovp_pc' = "returned"
    /\ UNCHANGED <<retries, responses, attempt, sleeps>>
    /\ UNCHANGED <<estVars, facVars, oriVars, recVars, nlVars, faVars, ddVars, mrgVars, splVars, socVars>>

\* an attempt that ends in requests.exceptions.Timeout: lines 62-65
OvpTimeout ==
    /\ ovp_pc = "loop" /\ MoreAttempts(attempt, retries)
    /\ responses[attempt + 1] = "Timeout"
    /\ requests_sent' = requests_sent + 1
    /\ sleeps' = IF ~IsLastAttempt(attempt, retries)
                 THEN Append(sleeps, Slept(attempt, "Timeout", 30))
                 ELSE sleeps
    /\ attempt' = attempt + 1
    /\ UNCHANGED <<retries, responses, ovp_result, ovp_pc>>
    /\ UNCHANGED <<estVars, facVars, oriVars, recVars, nlVars, faVars, ddVars, mrgVars, splVars, socVars>>

\* an attempt that ends in another exception, raised by requests.post or by
\* response.json(): lines 66-69
OvpException ==
    /\ ovp_pc = "loop" /\ MoreAttempts(attempt, retries)
    /\ responses[attempt + 1] \in {"ConnectionError", "200 no JSON"}
    /\ requests_sent' = requests_sent + 1
    /\ sleeps' = IF ~IsLastAttempt(attempt, retries)
                 THEN Append(sleeps, Slept(attempt, responses[attempt + 1], 30))
                 ELSE sleeps
    /\ attempt' = attempt + 1
    /\ UNCHANGED <<retries, responses, ovp_result, ovp_pc>>
    /\ UNCHANGED <<estVars, facVars, oriVars, recVars, nlVars, faVars, ddVars, mrgVars, splVars, socVars>>

\* the loop is over: line 71
OvpExhausted ==
    /\ ovp_pc = "loop" /\ ~MoreAttempts(attempt, retries)
    /\ ovp_result' = NoElements
    /\ ovp_pc' = "returned"
    /\ UNCHANGED <<retries, responses, attempt, requests_sent, sleeps>>
    /\ UNCHANGED <<estVars, facVars, oriVars, recVars, nlVars, faVars, ddVars, mrgVars, splVars, socVars>>

\* fetch_overpass is not running
OvpIdle ==
    /\ retries = 0 /\ responses = <<>>
    /\ attempt = 0 /\ requests_sent = 0 /\ sleeps = <<>>
    /\ ovp_result = NoElements /\ ovp_pc = "idle"

(***************************************************************************)
(* scripts/extract_osm_parking_spaces_netherlands.py: main and             *)
(* query_osm_parking_spaces_region                                         *)
(*                                                                         *)
(* A request ends in one of four ways: a response with a JSON body, a      *)
(* status raise_for_status() raises on, a timeout, or a body               *)
(* response.json() raises on.  The timeline records every request sent and *)
(* every time.sleep, in the order they happen.                             *)
(***************************************************************************)
grid_rows == 3
grid_cols == 2

\* create_regional_grid(NETHERLANDS_BOUNDS, rows=3, cols=2): the regions
\* <<row, col>>, row by row
create_regional_grid ==
    [k \in 1..(grid_rows * grid_cols) |->
        <<((k - 1) \div grid_cols) + 1, ((k - 1) % grid_cols) + 1>>]

\* "delay=5"
delay == 5

QueryOutcomes == {"ok", "HTTPError", "Timeout", "no JSON"}

Requested(region) == [event |-> "request", region |-> region, seconds |-> 0]

Waited(region, seconds) == [event |-> "sleep", region |-> region, seconds |-> seconds]

\* main() is called
NlStart ==
    /\ regions = create_regional_grid
    /\ region_i = 1
    /\ timeline = <<>> /\ osm_results = <<>>
    /\ nl_pc = "loop"

\* one turn of "for i, region in enumerate(regions, 1)" in which the query
\* returns the response's data: lines 65-82 and 179-183
NlQueryOk ==
    /\ nl_pc = "loop" /\ region_i <= Len(regions)
    /\ timeline' = IF delay > 0
                   THEN timeline \o <<Requested(regions[region_i]),
                                      Waited(regions[region_i], delay)>>
                   ELSE Append(timeline, Requested(regions[region_i]))
    /\ osm_results' = Append(osm_results, "data")
    /\ region_i' = region_i + 1
    /\ UNCHANGED <<regions, nl_pc>>
    /\ UNCHANGED <<estVars, facVars, oriVars, recVars, ovpVars, faVars, ddVars, mrgVars, splVars, socVars>>

\* one turn in which requests.post, raise_for_status() or response.json()
\* raises: lines 65-72, 83-85 and 179-183
NlQueryFails ==
    /\ nl_pc = "loop" /\ region_i <= Len(regions)
    /\ \E outcome \in QueryOutcomes \ {"ok"} :
          /\ timeline' = Append(timeline, Requested(regions[region_i]))
          /\ osm_results' = Append(osm_results, outcome)
    /\ region_i' = region_i + 1
    /\ UNCHANGED <<regions, nl_pc>>
    /\ UNCHANGED <<estVars, facVars, oriVars, recVars, ovpVars, faVars, ddVars, mrgVars, splVars, socVars>>

\* the loop is over: deduplication and output, which send no request
NlFinish ==
    /\ nl_pc = "loop" /\ region_i > Len(regions)
    /\ nl_pc' = "done"
    /\ UNCHANGED <<regions, region_i, timeline, osm_results>>
    /\ UNCHANGED <<estVars, facVars, oriVars, recVars, ovpVars, faVars, ddVars, mrgVars, splVars, socVars>>

\* the script is not running
NlIdle ==
    /\ regions = <<>> /\ region_i = 0
    /\ timeline = <<>> /\ osm_results = <<>>
    /\ nl_pc = "idle"

(***************************************************************************)
(* scripts/fetch_all.py                                                    *)
(*                                                                         *)
(* Each script enters the model as the return code of its process.         *)
(***************************************************************************)
scripts ==
    <<"fetch_osm_parking.py", "fetch_rdw_parking.py", "fetch_amsterdam_parking.py",
      "fetch_utrecht_parking.py", "fetch_eindhoven_parking.py", "merge_parking_data.py">>

\* the return codes of a process: success, an uncaught exception, a usage
\* error, a signal
ReturnCodes == {0, 1, 2, 0 - 15}

\* success as a return code that is not negative
run_script_NonNegative(returncode) == returncode >= 0

\* "return result.returncode == 0"
run_script(returncode) == returncode = 0

\* all(s for _, s in results)
All(list) == \A k \in DOMAIN list : list[k].success

\* main() is called
FaStart ==
    /\ processes = <<>> /\ results = <<>>
    /\ exit_status = None /\ fa_pc = "loop"

\* one turn of "for script, description in scripts"
FaRunScript ==
    /\ fa_pc = "loop" /\ Len(results) < Len(scripts)
    /\ LET script == scripts[Len(results) + 1]
       IN \E returncode \in ReturnCodes :
             /\ processes' = Append(processes, [script |-> script, returncode |-> returncode])
             /\ results' = Append(results, [script |-> script,
                                            success |-> run_script(returncode)])
    /\ UNCHANGED <<exit_status, fa_pc>>
    /\ UNCHANGED <<estVars, facVars, oriVars, recVars, ovpVars, nlVars, ddVars, mrgVars, splVars, socVars>>

\* the summary and "return 0 if all_success else 1"
FaSummary ==
    /\ fa_pc = "loop" /\ Len(results) = Len(scripts)
    /\ exit_status' = IF All(results) THEN 0 ELSE 1
    /\ fa_pc' = "exited"
    /\ UNCHANGED <<processes, results>>
    /\ UNCHANGED <<estVars, facVars, oriVars, recVars, ovpVars, nlVars, ddVars, mrgVars, splVars, socVars>>

\* the script is not running
FaIdle ==
    /\ processes = <<>> /\ results = <<>>
    /\ exit_status = None /\ fa_pc = "idle"

(***************************************************************************)
(* scripts/extract_osm_parking_spaces_netherlands.py:                      *)
(* deduplicate_parking_spaces                                              *)
(*                                                                         *)
(* A feature is what extract_parking_spaces makes of an OSM element: its   *)
(* osm_id and osm_type are the element's id and type; region stands for    *)
(* the response the element was read from and for the other properties.    *)
(* OSM numbers nodes and ways separately, so a node and a way can have the *)
(* same id.                                                                *)
(***************************************************************************)
ParkingSpaces ==
    {[osm_id |-> id, osm_type |-> type, region |-> region] :
        id \in {1, 2}, type \in {"node", "way"}, region \in {1, 2}}

\* the key made of the element's type and id
DedupKey_Typed(space) == <<space.osm_type, space.osm_id>>

\* "osm_id = space['properties']['osm_id']"
DedupKey(space) == space.osm_id

\* deduplicate_parking_spaces(all_spaces) is called
DdCall ==
    /\ all_spaces \in SeqsUpTo(ParkingSpaces, MaxSpaces)
    /\ seen_ids = {} /\ unique_spaces = <<>> /\ space_i = 1
    /\ dedup_calls = <<>> /\ dd_pc = "loop"

\* one turn of "for space in all_spaces"
DdSpace ==
    /\ dd_pc = "loop" /\ space_i <= Len(all_spaces)
    /\ LET space == all_spaces[space_i]
           osm_id == DedupKey(space)
       IN IF osm_id \notin seen_ids
          THEN /\ seen_ids' = seen_ids \cup {osm_id}
               /\ unique_spaces' = Append(unique_spaces, space)
          ELSE UNCHANGED <<seen_ids, unique_spaces>>
    /\ space_i' = space_i + 1
    /\ UNCHANGED <<all_spaces, dedup_calls, dd_pc>>
    /\ UNCHANGED <<estVars, facVars, oriVars, recVars, ovpVars, nlVars, faVars, mrgVars, splVars, socVars>>

\* "return unique_spaces"
DdReturn ==
    /\ dd_pc = "loop" /\ space_i > Len(all_spaces)
    /\ dedup_calls' = Append(dedup_calls, [all_spaces |-> all_spaces,
                                            unique_spaces |-> unique_spaces])
    /\ dd_pc' = "returned"
    /\ UNCHANGED <<all_spaces, seen_ids, unique_spaces, space_i>>
    /\ UNCHANGED <<estVars, facVars, oriVars, recVars, ovpVars, nlVars, faVars, mrgVars, splVars, socVars>>

\* the function is called again, on the list it returned
DdAgain ==
    /\ dd_pc = "returned" /\ Len(dedup_calls) < MaxDedupCalls
    /\ all_spaces' = dedup_calls[Len(dedup_calls)].unique_spaces
    /\ seen_ids' = {} /\ unique_spaces' = <<>> /\ space_i' = 1
    /\ dd_pc' = "loop"
    /\ UNCHANGED dedup_calls
    /\ UNCHANGED <<estVars, facVars, oriVars, recVars, ovpVars, nlVars, faVars, mrgVars, splVars, socVars>>

\* deduplicate_parking_spaces is not running
DdIdle ==
    /\ all_spaces = <<>> /\ seen_ids = {} /\ unique_spaces = <<>> /\ space_i = 0
    /\ dedup_calls = <<>> /\ dd_pc = "idle"

(***************************************************************************)
(* scripts/merge_parking_data.py: find_duplicates, merge_facilities, main  *)
(*                                                                         *)
(* Latitudes and longitudes are integers in units of 0.0001 degree, so     *)
(* that round(lat / cell_size) is Round(latitude, 10).  The facilities lie *)
(* near 52 N 4.8 E, where a unit of latitude is 11.1 m and a unit of       *)
(* longitude 6.8 m; haversine is modelled by the distance in that local    *)
(* plane, in decimetres.  Facilities are numbered from 1.  A dict is the   *)
(* sequence of its items in insertion order.                               *)
(***************************************************************************)
Latitudes == {520014, 520017, 520021}

Longitudes == {48000}

\* name (lower case, as a sequence of characters), capacity, has_realtime and
\* source as the fetch scripts write them
FacilityData ==
    {[name |-> <<>>, capacity |-> 0, has_realtime |-> FALSE, source |-> "osm"],
     [name |-> <<"p", "1">>, capacity |-> 0, has_realtime |-> FALSE, source |-> "osm"],
     [name |-> <<"p", "1">>, capacity |-> 100, has_realtime |-> TRUE, source |-> "rdw"],
     [name |-> <<"p", "2">>, capacity |-> 0, has_realtime |-> FALSE, source |-> "rdw"],
     [name |-> <<>>, capacity |-> 0, has_realtime |-> FALSE, source |-> "rdw"]}

\* a facility of the input; it has no key 'sources', which is the empty set
\* here
InputFacilities ==
    {[latitude |-> lat, longitude |-> lon, name |-> d.name, capacity |-> d.capacity,
      has_realtime |-> d.has_realtime, source |-> d.source, sources |-> {}] :
        lat \in Latitudes, lon \in Longitudes, d \in FacilityData}

\* haversine(lon1, lat1, lon2, lat2), in decimetres
haversine(lon1, lat1, lon2, lat2) ==
    LET dlon == 68 * (lon2 - lon1)
        dlat == 111 * (lat2 - lat1)
    IN Sqrt(dlat * dlat + dlon * dlon)

\* "distance_threshold: float = 50", in decimetres
distance_threshold == 500

\* "(round(lat / cell_size), round(lon / cell_size))"
CellOf(f) == <<Round(f.latitude, 10), Round(f.longitude, 10)>>

\* d[k] = v on a dict: a new item goes to the end, an old one keeps its place
DictSet(d, k, v) ==
    IF \E n \in DOMAIN d : d[n][1] = k
    THEN [n \in DOMAIN d |-> IF d[n][1] = k THEN <<k, v>> ELSE d[n]]
    ELSE Append(d, <<k, v>>)

\* the keys of a dict
DictKeys(d) == {d[n][1] : n \in DOMAIN d}

\* d[k]
DictGet(d, k) == d[CHOOSE n \in DOMAIN d : d[n][1] = k][2]

\* lines 64-72: the grid after the facilities 1..n have been entered
RECURSIVE BuildGrid(_, _)
BuildGrid(facilities, n) ==
    IF n = 0 THEN <<>>
    ELSE LET before == BuildGrid(facilities, n - 1)
             f == facilities[n]
         IN IF f.latitude # 0 /\ f.longitude # 0
            THEN IF CellOf(f) \in DictKeys(before)
                 THEN [m \in DOMAIN before |->
                          IF before[m][1] = CellOf(f)
                          THEN <<before[m][1], Append(before[m][2], n)>>
                          ELSE before[m]]
                 ELSE Append(before, <<CellOf(f), <<n>>>>)
            ELSE before

\* sorted(S) of a set of integers
RECURSIVE Sorted(_)
Sorted(S) ==
    IF S = {} THEN <<>>
    ELSE LET least == CHOOSE x \in S : \A y \in S : x <= y
         IN <<least>> \o Sorted(S \ {least})

\* lines 79-86: the indices in the cell and its eight neighbours, sorted
NearbyList(g, cell) ==
    Sorted(UNION {{g[m][2][k] : k \in DOMAIN g[m][2]} :
                     m \in {x \in DOMAIN g : /\ Abs(g[x][1][1] - cell[1]) <= 1
                                            /\ Abs(g[x][1][2] - cell[2]) <= 1}})

\* "name1 in name2" on strings
IsInfix(a, b) ==
    \E k \in 0..(Len(b) - Len(a)) : \A m \in 1..Len(a) : b[k + m] = a[m]

\* lines 111-113
NamesMatch(name1, name2) ==
    name1 = <<>> \/ name2 = <<>> \/ IsInfix(name1, name2) \/ IsInfix(name2, name1)
        \/ name1 = name2

Count(b) == IF b THEN 1 ELSE 0

\* lines 116-127
Score(f) ==
    Count(f.name # <<>>) + Count(f.capacity # 0) + Count(f.has_realtime)
        + Count(f.source = "rdw")

\* lines 102-113: the two facilities count as one
IsDuplicatePair(f1, f2) ==
    /\ f1.latitude # 0 /\ f1.longitude # 0 /\ f2.latitude # 0 /\ f2.longitude # 0
    /\ haversine(f1.longitude, f1.latitude, f2.longitude, f2.latitude) < distance_threshold
    /\ NamesMatch(f1.name, f2.name)

\* lines 95-132: "for idx2 in nearby_list[i+1:]" from position j on, for the
\* facility at position i
RECURSIVE InnerLoop(_, _, _, _, _)
InnerLoop(dups, facilities, list, i, j) ==
    IF j > Len(list) THEN dups
    ELSE LET idx1 == list[i]
             idx2 == list[j]
             f1 == facilities[idx1]
             f2 == facilities[idx2]
         IN IF idx2 \in DictKeys(dups) THEN InnerLoop(dups, facilities, list, i, j + 1)
            ELSE IF IsDuplicatePair(f1, f2)
                 THEN IF Score(f1) >= Score(f2)
                      THEN InnerLoop(DictSet(dups, idx2, idx1), facilities, list, i, j + 1)
                      ELSE InnerLoop(DictSet(dups, idx1, idx2), facilities, list, i, j + 1)
                 ELSE InnerLoop(dups, facilities, list, i, j + 1)

\* lines 88-132: "for i, idx1 in enumerate(nearby_list)" from position i on
RECURSIVE OuterLoop(_, _, _, _)
OuterLoop(dups, facilities, list, i) ==
    IF i > Len(list) THEN dups
    ELSE IF list[i] \in DictKeys(dups) THEN OuterLoop(dups, facilities, list, i + 1)
    ELSE OuterLoop(InnerLoop(dups, facilities, list, i, i + 1), facilities, list, i + 1)

\* "sources - {''}" of the canonical's source and the duplicate's: lines 162-164
MergedSources(merged, duplicate) == ({merged.source} \cup {duplicate.source}) \ {""}

\* merge_facilities(canonical, duplicate)
merge_facilities(canonical, duplicate) ==
    [canonical EXCEPT
        !.name = IF canonical.name = <<>> /\ duplicate.name # <<>>
                 THEN duplicate.name ELSE @,
        !.capacity = IF duplicate.capacity # 0 /\ canonical.capacity = 0
                     THEN duplicate.capacity ELSE @,
        !.has_realtime = IF duplicate.has_realtime /\ ~canonical.has_realtime
                         THEN TRUE ELSE @,
        !.sources = MergedSources(canonical, duplicate)]

\* merge_facilities applied to the duplicates dup_indices[k..] in turn
RECURSIVE MergeAll(_, _, _, _)
MergeAll(facility, facilities, dup_indices, k) ==
    IF k > Len(dup_indices) THEN facility
    ELSE MergeAll(merge_facilities(facility, facilities[dup_indices[k]]),
                  facilities, dup_indices, k + 1)

\* "[i for i, c in duplicates.items() if c == idx]"
RECURSIVE DupIndices(_, _)
DupIndices(dups, canonical) ==
    IF dups = <<>> THEN <<>>
    ELSE IF Head(dups)[2] = canonical
         THEN <<Head(dups)[1]>> \o DupIndices(Tail(dups), canonical)
         ELSE DupIndices(Tail(dups), canonical)

\* "set(range(len(all_facilities))) - set(duplicates.keys())", in the order of
\* the loop over this set of small integers
CanonicalIndices == Sorted((DOMAIN all_facilities) \ DictKeys(duplicates))

\* main() has loaded the facilities: lines 200-229
MrgLoad ==
    /\ all_facilities \in SeqsUpTo(InputFacilities, MaxMerged)
    /\ grid = <<>> /\ cell_i = 0 /\ duplicates = <<>>
    /\ merged_facilities = <<>> /\ canonical_i = 0
    /\ mrg_pc = "grid"

\* find_duplicates: lines 64-75
MrgGrid ==
    /\ mrg_pc = "grid"
    /\ grid' = BuildGrid(all_facilities, Len(all_facilities))
    /\ duplicates' = <<>>
    /\ cell_i' = 1
    /\ mrg_pc' = "cells"
    /\ UNCHANGED <<all_facilities, merged_facilities, canonical_i>>
    /\ UNCHANGED <<estVars, facVars, oriVars, recVars, ovpVars, nlVars, faVars, ddVars, splVars, socVars>>

\* find_duplicates: one turn of "for cell, indices in grid.items()"
MrgCell ==
    /\ mrg_pc = "cells" /\ cell_i <= Len(grid)
    /\ duplicates' = OuterLoop(duplicates, all_facilities,
                               NearbyList(grid, grid[cell_i][1]), 1)
    /\ cell_i' = cell_i + 1
    /\ UNCHANGED <<all_facilities, grid, merged_facilities, canonical_i, mrg_pc>>
    /\ UNCHANGED <<estVars, facVars, oriVars, recVars, ovpVars, nlVars, faVars, ddVars, splVars, socVars>>

\* find_duplicates returns; main: lines 232-237
MrgFound ==
    /\ mrg_pc = "cells" /\ cell_i > Len(grid)
    /\ merged_facilities' = <<>>
    /\ canonical_i' = 1
    /\ mrg_pc' = "merge"
    /\ UNCHANGED <<all_facilities, grid, cell_i, duplicates>>
    /\ UNCHANGED <<estVars, facVars, oriVars, recVars, ovpVars, nlVars, faVars, ddVars, splVars, socVars>>

\* main: one turn of "for idx in canonical_indices"
MrgMerge ==
    /\ mrg_pc = "merge" /\ canonical_i <= Len(CanonicalIndices)
    /\ LET canonical == CanonicalIndices[canonical_i]
           dup_indices == DupIndices(duplicates, canonical)
       IN merged_facilities' =
              Append(merged_facilities,
                     MergeAll(all_facilities[canonical], all_facilities, dup_indices, 1))
    /\ canonical_i' = canonical_i + 1
    /\ UNCHANGED <<all_facilities, grid, cell_i, duplicates, mrg_pc>>
    /\ UNCHANGED <<estVars, facVars, oriVars, recVars, ovpVars, nlVars, faVars, ddVars, splVars, socVars>>

\* main: the loop is over
MrgMerged ==
    /\ mrg_pc = "merge" /\ canonical_i > Len(CanonicalIndices)
    /\ mrg_pc' = "merged"
    /\ UNCHANGED <<all_facilities, grid, cell_i, duplicates, merged_facilities, canonical_i>>
    /\ UNCHANGED <<estVars, facVars, oriVars, recVars, ovpVars, nlVars, faVars, ddVars, splVars, socVars>>

\* merge_parking_data is not running
MrgIdle ==
    /\ all_facilities = <<>> /\ grid = <<>> /\ cell_i = 0 /\ duplicates = <<>>
    /\ merged_facilities = <<>> /\ canonical_i = 0
    /\ mrg_pc = "idle"

(***************************************************************************)
(* scripts/split_parking_by_province.py: split_by_province                 *)
(*                                                                         *)
(* Longitudes and latitudes are integers in hundredths of a degree.  A     *)
(* centroid is kept as the sums and the count it is the quotient of, and   *)
(* compared with the bounds without dividing.  A feature object is known   *)
(* by its position in the input.  The coordinates of a geometry are kept   *)
(* as a sequence of positions: the one position of a Point, the outer ring *)
(* of a Polygon.                                                           *)
(***************************************************************************)
ProvinceBounds(min_lat, max_lat, min_lon, max_lon) ==
    [min_lat |-> min_lat, max_lat |-> max_lat, min_lon |-> min_lon, max_lon |-> max_lon]

\* the dict PROVINCES, in its order
PROVINCES ==
    <<[key |-> "groningen", bounds |-> ProvinceBounds(5315, 5355, 620, 725)],
      [key |-> "friesland", bounds |-> ProvinceBounds(5285, 5340, 535, 630)],
      [key |-> "drenthe", bounds |-> ProvinceBounds(5265, 5315, 630, 705)],
      [key |-> "overijssel", bounds |-> ProvinceBounds(5220, 5275, 600, 700)],
      [key |-> "flevoland", bounds |-> ProvinceBounds(5235, 5275, 525, 580)],
      [key |-> "gelderland", bounds |-> ProvinceBounds(5175, 5225, 535, 670)],
      [key |-> "utrecht", bounds |-> ProvinceBounds(5195, 5225, 490, 545)],
      [key |-> "noord-holland", bounds |-> ProvinceBounds(5225, 5300, 460, 525)],
      [key |-> "zuid-holland", bounds |-> ProvinceBounds(5175, 5225, 390, 490)],
      [key |-> "zeeland", bounds |-> ProvinceBounds(5128, 5170, 340, 425)],
      [key |-> "noord-brabant", bounds |-> ProvinceBounds(5135, 5185, 450, 590)],
      [key |-> "limburg", bounds |-> ProvinceBounds(5075, 5150, 570, 625)]>>

\* the geometries of the input: points inside one box, inside two and three
\* overlapping boxes, on a shared corner and outside every box; a triangle;
\* a geometry that is neither Point nor Polygon
SplitGeometries ==
    {[type |-> "Point", coordinates |-> <<<<680, 5330>>>>],
     [type |-> "Point", coordinates |-> <<<<625, 5320>>>>],
     [type |-> "Point", coordinates |-> <<<<490, 5200>>>>],
     [type |-> "Point", coordinates |-> <<<<490, 5225>>>>],
     [type |-> "Point", coordinates |-> <<<<300, 5000>>>>],
     [type |-> "Polygon", coordinates |-> <<<<540, 5200>>, <<545, 5200>>, <<545, 5210>>>>],
     [type |-> "LineString", coordinates |-> <<<<490, 5200>>, <<491, 5200>>>>]}

RECURSIVE SumOf(_, _)
SumOf(coords, axis) ==
    IF coords = <<>> THEN 0 ELSE Head(coords)[axis] + SumOf(Tail(coords), axis)

\* get_feature_centroid: lon = lon_sum / count and lat = lat_sum / count
get_feature_centroid(geometry) ==
    IF geometry.type = "Point"
    THEN [lon_sum |-> geometry.coordinates[1][1], lat_sum |-> geometry.coordinates[1][2],
          count |-> 1]
    ELSE IF geometry.type = "Polygon"
    THEN LET coords == geometry.coordinates
         IN [lon_sum |-> SumOf(coords, 1), lat_sum |-> SumOf(coords, 2), count |-> Len(coords)]
    ELSE [lon_sum |-> 0, lat_sum |-> 0, count |-> 1]

\* point_in_bounds(lon, lat, bounds)
point_in_bounds(c, b) ==
    /\ b.min_lat * c.count <= c.lat_sum /\ c.lat_sum <= b.max_lat * c.count
    /\ b.min_lon * c.count <= c.lon_sum /\ c.lon_sum <= b.max_lon * c.count

\* the provinces the feature would go to in a loop without "break"
AssignedProvinces_NoBreak(c) ==
    {k \in DOMAIN PROVINCES : point_in_bounds(c, PROVINCES[k].bounds)}

\* lines 115-120: the province the loop stops at, if any
AssignedProvinces(c) ==
    {k \in DOMAIN PROVINCES :
        /\ point_in_bounds(c, PROVINCES[k].bounds)
        /\ \A j \in 1..(k - 1) : ~point_in_bounds(c, PROVINCES[j].bounds)}

RECURSIVE SumLengths(_, _)
SumLengths(lists, n) == IF n = 0 THEN 0 ELSE Len(lists[n]) + SumLengths(lists, n - 1)

\* split_by_province(input_file) has loaded the file: lines 93-104
SplLoad ==
    /\ split_features \in SeqsUpTo({[geometry |-> g] : g \in SplitGeometries}, MaxSplit)
    /\ feature_i = 1
    /\ province_data = [k \in DOMAIN PROVINCES |-> <<>>]
    /\ unassigned = <<>>
    /\ total_assigned = None
    /\ spl_pc = "assign"

\* one turn of "for i, feature in enumerate(data['features'])"
SplFeature ==
    /\ spl_pc = "assign" /\ feature_i <= Len(split_features)
    /\ LET feature == split_features[feature_i]
           to == AssignedProvinces(get_feature_centroid(feature.geometry))
       IN /\ province_data' =
                 [k \in DOMAIN PROVINCES |->
                     IF k \in to
                     THEN Append(province_data[k],
                                 [position |-> feature_i, geometry |-> feature.geometry,
                                  province |-> PROVINCES[k].key])
                     ELSE province_data[k]]
          /\ unassigned' = IF to = {}
                           THEN Append(unassigned, [position |-> feature_i,
                                                    geometry |-> feature.geometry,
                                                    province |-> ""])
                           ELSE unassigned
    /\ feature_i' = feature_i + 1
    /\ UNCHANGED <<split_features, total_assigned, spl_pc>>
    /\ UNCHANGED <<estVars, facVars, oriVars, recVars, ovpVars, nlVars, faVars, ddVars, mrgVars, socVars>>

\* lines 125-229: the files and the summary; the percentages of lines
\* 226-228 divide by the number of features and by the size of the files,
\* which is 0 when no province has a feature
SplSummary ==
    /\ spl_pc = "assign" /\ feature_i > Len(split_features)
    /\ total_assigned' = SumLengths(province_data, Len(PROVINCES))
    /\ spl_pc' = IF Len(split_features) = 0 \/ total_assigned' = 0 THEN "raised" ELSE "done"
    /\ UNCHANGED <<split_features, feature_i, province_data, unassigned>>
    /\ UNCHANGED <<estVars, facVars, oriVars, recVars, ovpVars, nlVars, faVars, ddVars, mrgVars, socVars>>

\* split_by_province is not running
SplIdle ==
    /\ split_features = <<>> /\ feature_i = 0
    /\ province_data = <<>> /\ unassigned = <<>>
    /\ total_assigned = None
    /\ spl_pc = "idle"

(***************************************************************************)
(* scripts/fetch_rdw_parking.py: fetch_socrata                             *)
(*                                                                         *)
(* A list of records is the sequence of the chunks it was put together     *)
(* from: the chunk [offset |-> o, count |-> n] is the n records of the     *)
(* dataset from the o-th on.  The server answers a request with a page of  *)
(* any length up to $limit, with a status raise_for_status() raises on (or *)
(* not at all), or with a body that is not JSON.                           *)
(***************************************************************************)
\* "limit = 50000"
limit == 50000

\* the argument params: None, a filter, or a filter with a $limit of its own
ParamsGiven == {"None", "$where", "$where $limit=10"}

\* "default_params = {'$limit': 50000}" updated with params
DefaultLimit(given) == IF given = "$where $limit=10" THEN 10 ELSE limit

\* the lengths of a page that is shorter than $limit
ShortLengths(page_limit) == {n \in {1, 2, page_limit - 1} : n > 0 /\ n < page_limit}

Chunk(from, count) == [offset |-> from, count |-> count]

Requested_Page(page_limit, from) == [limit |-> page_limit, offset |-> from]

\* an answer of the server: a page of count records, a failed request
\* ("error") or a body that is not JSON
Page(status, count) == [status |-> status, count |-> count]

\* the records fetched so far returned after a failure
FailureResult_Partial(fetched) == fetched

\* "except requests.exceptions.RequestException: return []"
FailureResult(fetched) == <<>>

\* fetch_socrata(dataset_id, params, paginate) is called
SocCall ==
    /\ params \in ParamsGiven /\ paginate \in BOOLEAN
    /\ offset = 0 /\ all_data = <<>> /\ page_requests = <<>> /\ pages = <<>>
    /\ soc_result = <<>> /\ soc_pc = "call"

\* paginate: one turn of "while True" in which the page is not empty and not
\* shorter than limit
SocFullPage ==
    /\ soc_pc = "call" /\ paginate /\ Len(page_requests) < MaxPages
    /\ pages' = Append(pages, Page("ok", limit))
    /\ page_requests' = Append(page_requests, Requested_Page(limit, offset))
    /\ all_data' = Append(all_data, Chunk(offset, limit))
    /\ offset' = offset + limit
    /\ UNCHANGED <<params, paginate, soc_result, soc_pc>>
    /\ UNCHANGED <<estVars, facVars, oriVars, recVars, ovpVars, nlVars, faVars, ddVars, mrgVars, splVars>>

\* paginate: the turn in which the page is shorter than limit, and the return
SocShortPage ==
    /\ soc_pc = "call" /\ paginate /\ Len(page_requests) < MaxPages
    /\ page_requests' = Append(page_requests, Requested_Page(limit, offset))
    /\ \E n \in ShortLengths(limit) :
          /\ pages' = Append(pages, Page("ok", n))
          /\ all_data' = Append(all_data, Chunk(offset, n))
          /\ soc_result' = all_data'
    /\ soc_pc' = "returned"
    /\ UNCHANGED <<params, paginate, offset>>
    /\ UNCHANGED <<estVars, facVars, oriVars, recVars, ovpVars, nlVars, faVars, ddVars, mrgVars, splVars>>

\* paginate: the turn in which the page is empty, and the return
SocEmptyPage ==
    /\ soc_pc = "call" /\ paginate /\ Len(page_requests) < MaxPages
    /\ pages' = Append(pages, Page("ok", 0))
    /\ page_requests' = Append(page_requests, Requested_Page(limit, offset))
    /\ soc_result' = all_data
    /\ soc_pc' = "returned"
    /\ UNCHANGED <<params, paginate, offset, all_data>>
    /\ UNCHANGED <<estVars, facVars, oriVars, recVars, ovpVars, nlVars, faVars, ddVars, mrgVars, splVars>>

\* not paginate: the one request and the return of its data
SocSingle ==
    /\ soc_pc = "call" /\ ~paginate
    /\ page_requests' = Append(page_requests, Requested_Page(DefaultLimit(params), 0))
    /\ \E n \in {0, DefaultLimit(params)} \cup ShortLengths(DefaultLimit(params)) :
          /\ pages' = Append(pages, Page("ok", n))
          /\ soc_result' = IF n = 0 THEN <<>> ELSE <<Chunk(0, n)>>
    /\ soc_pc' = "returned"
    /\ UNCHANGED <<params, paginate, offset, all_data>>
    /\ UNCHANGED <<estVars, facVars, oriVars, recVars, ovpVars, nlVars, faVars, ddVars, mrgVars, splVars>>

\* requests.get or raise_for_status() raises a RequestException
SocRequestFails ==
    /\ soc_pc = "call" /\ Len(page_requests) < MaxPages
    /\ pages' = Append(pages, Page("error", 0))
    /\ page_requests' =
          Append(page_requests,
                 Requested_Page(IF paginate THEN limit ELSE DefaultLimit(params), offset))
    /\ soc_result' = FailureResult(all_data)
    /\ soc_pc' = "returned"
    /\ UNCHANGED <<params, paginate, offset, all_data>>
    /\ UNCHANGED <<estVars, facVars, oriVars, recVars, ovpVars, nlVars, faVars, ddVars, mrgVars, splVars>>

\* response.json() raises on the body: the exception is a RequestException
\* in requests 2.27 and later and is caught, and is a ValueError that leaves
\* the function in the versions before
SocBodyNotJson ==
    /\ soc_pc = "call" /\ Len(page_requests) < MaxPages
    /\ pages' = Append(pages, Page("no JSON", 0))
    /\ page_requests' =
          Append(page_requests,
                 Requested_Page(IF paginate THEN limit ELSE DefaultLimit(params), offset))
    /\ \/ soc_result' = FailureResult(all_data) /\ soc_pc' = "returned"
       \/ soc_result' = soc_result /\ soc_pc' = "raised"
    /\ UNCHANGED <<params, paginate, offset, all_data>>
    /\ UNCHANGED <<estVars, facVars, oriVars, recVars, ovpVars, nlVars, faVars, ddVars, mrgVars, splVars>>

\* fetch_socrata is not running
SocIdle ==
    /\ params = "None" /\ paginate = FALSE
    /\ offset = 0 /\ all_data = <<>> /\ page_requests = <<>> /\ pages = <<>>
    /\ soc_result = <<>> /\ soc_pc = "idle"

(***************************************************************************)
(* Specifications                                                          *)
(***************************************************************************)
\* none of the fetching scripts is running
FetchIdle == OvpIdle /\ NlIdle /\ FaIdle

\* none of the data tools is running
ToolsIdle == DdIdle /\ MrgIdle /\ SplIdle /\ SocIdle

\* none of the estimation and reclassification scripts is running
ParkIdle == EstIdle /\ FacIdle /\ OriIdle /\ RecIdle

\* A call of estimate_spaces_in_polygon
EstInit == EstCall /\ FacIdle /\ OriIdle /\ RecIdle /\ FetchIdle /\ ToolsIdle

EstNext == EstGrid \/ EstError \/ EstCell \/ EstCellRaises \/ EstReturn

SpecEst == EstInit /\ [][EstNext]_vars

\* A run of estimate_spaces_for_facilities
FacInit == FacLoad /\ EstIdle /\ OriIdle /\ RecIdle /\ FetchIdle /\ ToolsIdle

FacNext ==
    FacSelect \/ FacBegin \/ FacArea \/ FacEnd \/ FacWrite \/ FacSummary \/ FacSummaryRaises

SpecFac == FacInit /\ [][FacNext]_vars

\* A call of detect_parking_orientation
OriInit == OriCall /\ EstIdle /\ FacIdle /\ RecIdle /\ FetchIdle /\ ToolsIdle

OriNext == OriRaises \/ OriHough \/ OriAngle \/ OriHistogram \/ OriSnap

SpecOri == OriInit /\ [][OriNext]_vars

\* Runs of the reclassifier, each on the output of the run before
RecInit == RecStart /\ EstIdle /\ FacIdle /\ OriIdle /\ FetchIdle /\ ToolsIdle

RecNext == RecOpen \/ RecFeature \/ RecSave

SpecRec == RecInit /\ [][RecNext]_vars

\* A call of fetch_overpass
OvpInit == OvpCall /\ ParkIdle /\ NlIdle /\ FaIdle /\ ToolsIdle

OvpNext ==
    OvpRateLimited \/ OvpHttpError \/ OvpSuccess \/ OvpTimeout \/ OvpException \/ OvpExhausted

SpecOvp == OvpInit /\ [][OvpNext]_vars

\* The same, with the interpreter running the function to its end
SpecOvpFair == SpecOvp /\ WF_vars(OvpNext)

\* A run of extract_osm_parking_spaces_netherlands
NlInit == NlStart /\ ParkIdle /\ OvpIdle /\ FaIdle /\ ToolsIdle

NlNext == NlQueryOk \/ NlQueryFails \/ NlFinish

SpecNl == NlInit /\ [][NlNext]_vars

\* A run of fetch_all
FaInit == FaStart /\ ParkIdle /\ OvpIdle /\ NlIdle /\ ToolsIdle

FaNext == FaRunScript \/ FaSummary

SpecFa == FaInit /\ [][FaNext]_vars

\* Calls of deduplicate_parking_spaces, each on the list the call before
\* returned
DdInit == DdCall /\ ParkIdle /\ FetchIdle /\ MrgIdle /\ SplIdle /\ SocIdle

DdNext == DdSpace \/ DdReturn \/ DdAgain

SpecDd == DdInit /\ [][DdNext]_vars

\* A run of merge_parking_data up to the merged list
MrgInit == MrgLoad /\ ParkIdle /\ FetchIdle /\ DdIdle /\ SplIdle /\ SocIdle

MrgNext == MrgGrid \/ MrgCell \/ MrgFound \/ MrgMerge \/ MrgMerged

SpecMrg == MrgInit /\ [][MrgNext]_vars

\* A run of split_by_province
SplInit == SplLoad /\ ParkIdle /\ FetchIdle /\ DdIdle /\ MrgIdle /\ SocIdle

SplNext == SplFeature \/ SplSummary

SpecSpl == SplInit /\ [][SplNext]_vars

\* A call of fetch_socrata
SocInit == SocCall /\ ParkIdle /\ FetchIdle /\ DdIdle /\ MrgIdle /\ SplIdle

SocNext ==
    SocFullPage \/ SocShortPage \/ SocEmptyPage \/ SocSingle \/ SocRequestFails
        \/ SocBodyNotJson

SpecSoc == SocInit /\ [][SocNext]_vars

(***************************************************************************)
(* Properties of estimate_spaces_in_polygon (checked under SpecEst)        *)
(***************************************************************************)
\* The call has returned without an exception
EstReturned == est_pc = "returned" /\ est_exception = ""

\* The cells of a grid of r rows and c columns
Cells(r, c) == (0..(r - 1)) \X (0..(c - 1))

\* Cell a comes before cell b in row-major order
Before(a, b) == a[1] < b[1] \/ (a[1] = b[1] /\ a[2] < b[2])

\* The bounding-box grid of the polygon, before any adjustment to a capacity
UnscaledParams == Params(polygon_coords, 0, vehicle_type, rotation_angle)

\* The cells of the bounding-box grid whose centres are inside the polygon
UnscaledInside ==
    {rc \in Cells(UnscaledParams.rows, UnscaledParams.cols) :
        CenterInside(UnscaledParams, rc[1], rc[2])}

\* The cells of the grid in use whose centres are inside the polygon
GridInside == {rc \in Cells(rows, cols) : CenterInside(CurrentParams, rc[1], rc[2])}

\* C1 (as claimed): called with a capacity c > 0 on a polygon whose
\* bounding-box grid admits more than c cells with their centres inside the
\* polygon, the function returns exactly c spaces, numbered 1..c.
C1_CapacityCapExact ==
    (EstReturned /\ capacity > 0 /\ Cardinality(UnscaledInside) > capacity)
        => /\ Len(est_result) = capacity
           /\ \A i \in 1..Len(est_result) : est_result[i].space_number = i

\* The loops were left before the last cell of the grid had its turn
StoppedEarly ==
    /\ est_pc \in {"return", "returned"}
    /\ est_exception = ""
    /\ ~(row = rows - 1 /\ col = cols - 1)

\* C2: with a capacity > 0 the function never holds or returns more than
\* capacity spaces, and whenever the capacity check stops the emission (the
\* loops are left early, or the counter has passed the capacity) the last
\* space has space_number = capacity.
C2_NeverMoreThanCapacity ==
    capacity > 0 =>
        /\ Len(spaces) <= capacity
        /\ Len(est_result) <= capacity
        /\ (StoppedEarly \/ (est_pc \in {"return", "returned"} /\ space_num > capacity))
              => /\ Len(spaces) > 0
                 /\ spaces[Len(spaces)].space_number = capacity

\* C2 witness: a call with a capacity that left the loops with cells of the
\* grid still unvisited and returned exactly capacity spaces.
C2_Witness ==
    /\ EstReturned /\ capacity > 1 /\ StoppedEarly
    /\ Len(est_result) = capacity
    /\ Cardinality(GridInside) > capacity

\* A point strictly inside a convex ring: it lies strictly on the same side of
\* every edge (stated without the even-odd test that Contains uses).
Side(a, b, px, py, dx, dy) ==
    (b[1] * dx - a[1] * dx) * (py - a[2] * dy) - (b[2] * dy - a[2] * dy) * (px - a[1] * dx)

StrictlyInsideConvex(coords, px, py, dx, dy) ==
    LET ring == Ring(coords)
        edges == 1..(Len(ring) - 1)
    IN  \/ \A i \in edges : Side(ring[i], ring[i + 1], px, py, dx, dy) > 0
        \/ \A i \in edges : Side(ring[i], ring[i + 1], px, py, dx, dy) < 0

\* C3: with rotation_angle = None (the polygons of the model are convex),
\* every space held or returned has its centre strictly inside the polygon,
\* by the containment test of the filter and by the side-of-every-edge test;
\* no centre outside or on the boundary is emitted.
C3_CentersStrictlyInside ==
    (rotation_angle = None /\ est_pc \in {"loop", "return", "returned"}) =>
        \A i \in 1..Len(spaces) :
            /\ Contains(polygon_coords, spaces[i].center_lon, spaces[i].center_lat,
                        2 * cols, 2 * rows)
            /\ StrictlyInsideConvex(polygon_coords, spaces[i].center_lon,
                                    spaces[i].center_lat, 2 * cols, 2 * rows)

\* C3 witness: an unrotated call on a triangle returned spaces while a cell
\* centre lying exactly on the triangle's boundary, and one outside, were
\* left out.
C3_Witness ==
    /\ EstReturned /\ rotation_angle = None /\ capacity = 0
    /\ Len(polygon_coords) = 4
    /\ Len(est_result) > 0
    /\ \E rc \in Cells(rows, cols) :
          /\ ~CenterInside(CurrentParams, rc[1], rc[2])
          /\ \E i \in 1..3 :
                OnEdge(polygon_coords[i], polygon_coords[i + 1],
                       CenterLon(CurrentParams, rc[2]), CenterLat(CurrentParams, rc[1]),
                       2 * cols, 2 * rows)
    /\ Len(est_result) + 1 < rows * cols

\* An axis-aligned square of side s (centimetres)
IsSquare(coords, s) == coords = MakePolygon("rect", s, s)

\* C4 (as claimed): for an axis-aligned square of side S, class car/van and
\* capacity = 0, rows * cols = floor(S / (2.5 * 1.2)) * floor(S / (5.0 * 1.2)).
C4_GridCellsFloor ==
    \A s \in Sides :
        (est_pc = "loop" /\ IsSquare(polygon_coords, s)
            /\ vehicle_type = "car" /\ capacity = 0)
        => rows * cols = (s \div 300) * (s \div 600)

\* C4 (amended): rows * cols =
\* max(1, floor(S / (2.5 * 1.2))) * max(1, floor(S / (5.0 * 1.2))).
C4_GridCellsFloorAtLeastOne ==
    \A s \in Sides :
        (est_pc = "loop" /\ IsSquare(polygon_coords, s)
            /\ vehicle_type = "car" /\ capacity = 0)
        => rows * cols = Max(1, s \div 300) * Max(1, s \div 600)

\* C4 witness: a square large enough for several rows and columns.
C4_Witness ==
    /\ est_pc = "loop" /\ vehicle_type = "car" /\ capacity = 0
    /\ \E s \in Sides : IsSquare(polygon_coords, s)
    /\ rows >= 2 /\ cols >= 4

\* The cells visited so far, in a call that is in its loop or past it
Visited ==
    {rc \in Cells(rows, cols) :
        IF est_pc = "loop" THEN Before(rc, <<row, col>>)
                           ELSE Before(rc, <<row, col>>) \/ rc = <<row, col>>}

\* C10: the spaces carry space_number 1, 2, ..., n in list order without gap
\* or repeat; the list is in row-major order of the grid; the counter is one
\* ahead of the list, so a rejected cell consumes no number; and the list
\* holds exactly the visited cells that passed the containment test.
C10_SequentialRowMajor ==
    (est_pc \in {"loop", "return", "returned"} /\ est_exception = "") =>
        /\ \A i \in 1..Len(spaces) : spaces[i].space_number = i
        /\ space_num = Len(spaces) + 1
        /\ \A i, j \in 1..Len(spaces) :
              i < j => \/ spaces[i].center_lat < spaces[j].center_lat
                       \/ /\ spaces[i].center_lat = spaces[j].center_lat
                          /\ spaces[i].center_lon < spaces[j].center_lon
        /\ Len(spaces) =
              Cardinality({rc \in Visited : CenterInside(CurrentParams, rc[1], rc[2])})
        /\ est_pc = "returned" => est_result = spaces

\* C10 witness: a returned list over two rows in which an accepted cell
\* follows a rejected one.
C10_Witness ==
    /\ EstReturned /\ Len(est_result) >= 3
    /\ \E i \in 1..(Len(est_result) - 1) :
          est_result[i].center_lat < est_result[i + 1].center_lat
    /\ \E rc \in Cells(rows, cols) :
          /\ ~CenterInside(CurrentParams, rc[1], rc[2])
          /\ \/ CenterLat(CurrentParams, rc[1]) < est_result[Len(est_result)].center_lat
             \/ /\ CenterLat(CurrentParams, rc[1]) = est_result[Len(est_result)].center_lat
                /\ CenterLon(CurrentParams, rc[2]) < est_result[Len(est_result)].center_lon

\* C13: an exception raised while estimate_spaces_in_polygon builds or
\* processes the geometry makes the call return the empty list: the call
\* ends returned (the exception is not propagated), and the list built up to
\* the exception is not returned, in part or whole.
C13_ExceptionReturnsEmpty ==
    /\ est_pc \in {"idle", "call", "loop", "return", "returned"}
    /\ est_exception # "" => est_pc = "returned" /\ est_result = <<>>

\* C13 witness: the exception came when two spaces had been built already
C13_Witness ==
    /\ est_pc = "returned" /\ est_exception = "MemoryError"
    /\ Len(spaces) = 2 /\ est_result = <<>>

\* The ring is the closed axis-aligned rectangle of half-extents hw and hl
\* around (cx, cy)
IsAxisAlignedRing(ring, cx, cy, hw, hl) ==
    /\ Len(ring) = 5
    /\ ring[5] = ring[1]
    /\ {ring[i] : i \in 1..4} = {cx - hw, cx + hw} \X {cy - hl, cy + hl}
    /\ \A i \in 1..4 : ring[i][1] = ring[i + 1][1] \/ ring[i][2] = ring[i + 1][2]

\* C16: with rotation_angle None or 0, every space polygon is an axis-aligned
\* closed ring of exactly 5 vertices (4 corners and the first repeated)
\* centred on the space's centre, its half-extents half the nominal width
\* and half the nominal length (without the 1.2 spacing factor); with any
\* other angle the rectangle is rotated about that centre by the negated
\* angle.  (Vertices and centres are numerators over 2 * cols and 2 * rows,
\* so half the width is width_m * cols and half the length length_m * rows.)
C16_UnrotatedSpaceIsAxisAligned ==
    est_pc \in {"loop", "return", "returned"} =>
        \A i \in 1..Len(spaces) :
            LET space == spaces[i]
                hw == space.width_m * cols
                hl == space.length_m * rows
            IN IF rotation_angle = None \/ rotation_angle = 0
               THEN IsAxisAlignedRing(space.polygon_coords, space.center_lon,
                                      space.center_lat, hw, hl)
               ELSE /\ space.polygon_coords.angle = 0 - rotation_angle
                    /\ space.polygon_coords.origin = <<space.center_lon, space.center_lat>>
                    /\ IsAxisAlignedRing(space.polygon_coords.rotated, space.center_lon,
                                          space.center_lat, hw, hl)

\* C16 witness: a call with rotation_angle = 0 returned several truck spaces
C16_Witness ==
    /\ EstReturned /\ rotation_angle = 0 /\ vehicle_type = "truck"
    /\ Len(est_result) >= 2
    /\ Len(est_result[1].polygon_coords) = 5

(***************************************************************************)
(* Properties of estimate_spaces_for_facilities (checked under SpecFac)    *)
(***************************************************************************)
\* The loop over a facility's areas has just finished an area with geometry
AreaProcessed ==
    /\ fac_pc = "area" /\ ai > 1
    /\ candidates[fi].osm_parking_areas[ai - 1].geometry # NoGeometry

LastArea == candidates[fi].osm_parking_areas[ai - 1]

LastAreaM2 == calculate_polygon_area_m2(LastArea.geometry)

\* The features emitted for the area just processed
LastAreaFeatures ==
    {k \in 1..Len(estimated_features) :
        estimated_features[k].parking_area_osm_id = LastArea.osm_id}

\* C5 (as claimed): an area tagged truck or lzv whose computed area_m2 is
\* below 30 is estimated and emitted with vehicle_type 'car'; an area tagged
\* truck with area_m2 >= 30 keeps 'truck'.
C5_SmallAreaBecomesCar ==
    AreaProcessed =>
        /\ (LastArea.vehicle_type \in {"truck", "lzv"} /\ LastAreaM2 < 300000)
              => /\ vehicle_type = "car"
                 /\ \A k \in LastAreaFeatures : estimated_features[k].vehicle_type = "car"
        /\ (LastArea.vehicle_type = "truck" /\ LastAreaM2 >= 300000)
              => /\ vehicle_type = "truck"
                 /\ \A k \in LastAreaFeatures : estimated_features[k].vehicle_type = "truck"

\* C5 (amended): an area tagged truck or lzv whose computed area_m2 is above
\* 0 and below 30 is estimated and emitted with vehicle_type 'car'; an area
\* tagged truck with area_m2 >= 30 keeps 'truck'.
C5_SmallNonEmptyAreaBecomesCar ==
    AreaProcessed =>
        /\ (LastArea.vehicle_type \in {"truck", "lzv"}
                /\ LastAreaM2 > 0 /\ LastAreaM2 < 300000)
              => /\ vehicle_type = "car"
                 /\ \A k \in LastAreaFeatures : estimated_features[k].vehicle_type = "car"
        /\ (LastArea.vehicle_type = "truck" /\ LastAreaM2 >= 300000)
              => /\ vehicle_type = "truck"
                 /\ \A k \in LastAreaFeatures : estimated_features[k].vehicle_type = "truck"

\* C5 witness: a 25 square metre area tagged lzv was emitted as 'car', after a
\* 30 square metre area tagged truck was emitted as 'truck'.
C5_Witness ==
    /\ AreaProcessed
    /\ LastArea.vehicle_type = "lzv" /\ LastAreaM2 = 250000
    /\ LastAreaFeatures # {}
    /\ \A k \in LastAreaFeatures : estimated_features[k].vehicle_type = "car"
    /\ \E k \in 1..Len(estimated_features) :
          /\ estimated_features[k].vehicle_type = "truck"
          /\ k \notin LastAreaFeatures

\* C9 (as claimed): spaces estimated for 'lzv' use the truck dimensions
\* (4.0 x 15.0) like 'truck' and every other class uses 2.5 x 5.0, in the
\* emitted width_m and length_m and in the per-space area that derives a
\* capacity from the polygon's area.
C9_LzvUsesTruckDimensions ==
    AreaProcessed =>
        LET truckLike == vehicle_type \in {"truck", "lzv"}
            w == IF truckLike THEN 400 ELSE 250
            l == IF truckLike THEN 1500 ELSE 500
        IN  /\ \A k \in LastAreaFeatures :
                  /\ estimated_features[k].width_m = w
                  /\ estimated_features[k].length_m = l
            /\ (LastArea.capacity = 0 /\ candidates[fi].total_capacity = 0 /\ LastAreaM2 > 0)
                  => capacity = (LastAreaM2 * 6) \div (10 * w * l)

\* The area just processed failed in its area computation and space fitting
\* (Polygon() raised), in its satellite fetch, or in its orientation detection
FittingFailed == est_exception # ""

FetchFailed == satellite_image = "None"

DetectionFailed == satellite_image = "image" /\ rotation_angle = None

\* The areas with geometry whose turn in the loops is over: <<f, a>> is area a
\* of candidate f
AreasDone ==
    {fa \in (1..Len(candidates)) \X (1..MaxAreas) :
        /\ fa[2] <= Len(candidates[fa[1]].osm_parking_areas)
        /\ candidates[fa[1]].osm_parking_areas[fa[2]].geometry # NoGeometry
        /\ \/ fa[1] < fi
           \/ fa[1] = fi /\ fac_pc = "area" /\ fa[2] < ai}

\* The number of spaces that fit area a of candidate f when nothing fails
\* but, at most, the satellite fetch or the orientation detection
SpacesFitting(f, a) ==
    LET facility == candidates[f]
        area == facility.osm_parking_areas[a]
        area_m2 == calculate_polygon_area_m2(area.geometry)
        vt == AreaVehicleType(area.vehicle_type, area_m2)
    IN Len(EstimateSpaces(area.geometry,
                          TargetCapacity(area, facility, area_m2, vt), vt, None))

\* The positions in the features built so far of the features of area a of
\* candidate f
FeaturesOf(f, a) ==
    {k \in 1..Len(estimated_features) :
        estimated_features[k].parking_area_osm_id
            = candidates[f].osm_parking_areas[a].osm_id}

\* Every area of the facility in progress whose turn is over has all its
\* features among the features built so far, and so has every area of every
\* candidate once the files are written, whatever failed in other areas; the
\* features are in the order of the loops; once the loops are over every
\* candidate has had its turn, and the files written hold the features built
BatchContinues ==
    /\ \A fa \in AreasDone :
          (fac_pc \in {"summary", "done", "raised"} \/ fa[1] = fi) =>
              Cardinality(FeaturesOf(fa[1], fa[2])) = SpacesFitting(fa[1], fa[2])
    /\ fac_pc \in {"facility", "area", "write", "summary", "done", "raised"} =>
          /\ \A k \in 1..(Len(estimated_features) - 1) :
                 LET this == estimated_features[k].parking_area_osm_id
                     next == estimated_features[k + 1].parking_area_osm_id
                 IN \/ this[1] < next[1]
                    \/ this[1] = next[1] /\ this[2] <= next[2]
    /\ fac_pc \in {"write", "summary", "done", "raised"} => fi = Len(candidates) + 1
    /\ fac_pc \in {"summary", "done", "raised"} =>
          output_file = estimated_features /\ public_file = estimated_features

\* C14 (as stated): a failure while processing one parking area (area
\* computation, satellite fetch, orientation detection or space fitting)
\* yields no features for that area, and for that area only: every later
\* area and facility is still processed in order and the features of all
\* other areas are in the written output.
C14_FailedAreaHasNoFeatures ==
    /\ AreaProcessed =>
          ((FittingFailed \/ FetchFailed \/ DetectionFailed) => LastAreaFeatures = {})
    /\ BatchContinues

\* C14 (amended): a failure of the area computation or of the space fitting
\* yields no features for that area; a failure of the satellite fetch or of
\* the orientation detection leaves the area with the features of the
\* unrotated fit, marked as not analysed by satellite; in both cases every
\* later area and facility is still processed in order and the features of
\* all other areas are in the written output.
C14_FailedAreaDoesNotStopBatch ==
    /\ AreaProcessed =>
          /\ FittingFailed => LastAreaFeatures = {}
          /\ ((FetchFailed \/ DetectionFailed) /\ ~FittingFailed) =>
                /\ Cardinality(LastAreaFeatures) = SpacesFitting(fi, ai - 1)
                /\ \A k \in LastAreaFeatures :
                       /\ estimated_features[k].rotation_angle = None
                       /\ ~estimated_features[k].satellite_analyzed
                       /\ Len(estimated_features[k].coordinates) = 5
    /\ BatchContinues

\* C14 witness: the first area of a facility failed in Polygon() and has no
\* feature, and the second area, whose satellite fetch failed, has one
C14_Witness ==
    /\ AreaProcessed /\ ai = 3
    /\ PolygonRaises(candidates[fi].osm_parking_areas[1].geometry)
    /\ FeaturesOf(fi, 1) = {}
    /\ FetchFailed /\ ~FittingFailed
    /\ LastAreaFeatures # {}

(***************************************************************************)
(* Properties of detect_parking_orientation (checked under SpecOri)        *)
(***************************************************************************)
\* the midpoint of the dominant bin, before the snapping loop
UnsnappedAngle == 5 + 10 * dominant_bin

\* angle is less than 10 degrees away from the reference angle ref
WithinTen(angle, ref) == angle - ref < 20 /\ ref - angle < 20

\* C8: a dominant angle within 10 degrees of one of 0, 45, 90, 135 degrees is
\* replaced by that reference angle, the first in this order that matches,
\* and any other dominant angle is returned as it is; 42 degrees becomes 45
\* and 60 degrees stays 60.
C8_SnapToCommonAngle ==
    /\ SnapAngle(84) = 90
    /\ SnapAngle(120) = 120
    /\ (ori_pc = "returned" /\ dominant_bin # None) =>
           LET refs == <<0, 90, 180, 270>>
               first(k) == /\ WithinTen(UnsnappedAngle, refs[k])
                           /\ \A j \in 1..(k - 1) : ~WithinTen(UnsnappedAngle, refs[j])
           IN IF \E k \in 1..4 : WithinTen(UnsnappedAngle, refs[k])
              THEN \E k \in 1..4 : first(k) /\ ori_result = refs[k]
              ELSE ori_result = UnsnappedAngle

\* two lines, the dominant bin is the one around 37.5 degrees, and 45 degrees
\* is returned
C8_Witness ==
    /\ ori_pc = "returned" /\ Len(image.lines) = 2
    /\ dominant_bin = 7 /\ ori_result = 90

\* C15 (as stated): every per-segment angle, after normalisation, lies in
\* [0, 180) degrees, and so does every value returned that is not None.
C15_AnglesBelowHalfTurn ==
    /\ \A i \in DOMAIN angles : angles[i] >= 0 /\ angles[i] < 360
    /\ (ori_pc = "returned" /\ ori_result # None) => ori_result >= 0 /\ ori_result < 360

\* C15 (amended): every per-segment angle, after normalisation, lies in
\* [0, 180] degrees, 180 included; every value returned that is not None lies
\* in [0, 180).
C15_AnglesUpToHalfTurn ==
    /\ \A i \in DOMAIN angles : angles[i] >= 0 /\ angles[i] <= 360
    /\ (ori_pc = "returned" /\ ori_result # None) => ori_result >= 0 /\ ori_result < 360

\* a segment of direction -12 degrees was normalised to 168 degrees, one of
\* direction 180 degrees stayed at 180, and an angle was returned
C15_Witness ==
    /\ ori_pc = "returned" /\ ori_result # None
    /\ image.lines = <<0 - 24, 360>>
    /\ angles = <<336, 360>>

(***************************************************************************)
(* Properties of the reclassifier (checked under SpecRec)                  *)
(***************************************************************************)
\* the file the running reclassifier has loaded
InputFile == files[Len(files)]

\* the square of the length of the edge from p1 to p2
SquaredLength(p1, p2) ==
    (p2[1] - p1[1]) * (p2[1] - p1[1]) + (p2[2] - p1[2]) * (p2[2] - p1[2])

\* a Polygon with at least 4 ring vertices whose first two edges have a length
HasTwoEdges(feature) ==
    /\ feature.geometry.type = "Polygon"
    /\ LET ring == feature.geometry.coordinates[1]
       IN /\ Len(ring) >= 4
          /\ SquaredLength(ring[1], ring[2]) > 0
          /\ SquaredLength(ring[2], ring[3]) > 0

\* the class the size rule gives to a ring: truck when the shorter of the
\* first two edges is at least 3.5 m and the longer at least 13.0 m
SizeClass(ring) ==
    LET sq1 == SquaredLength(ring[1], ring[2])
        sq2 == SquaredLength(ring[2], ring[3])
    IN IF Min(sq1, sq2) >= 3500 * 3500 /\ Max(sq1, sq2) >= 13000 * 13000
       THEN "truck" ELSE "car"

\* a feature of the input with the given ring and tag
PolygonFeature(ring, vt) ==
    [geometry |-> [type |-> "Polygon", coordinates |-> <<ring>>],
     properties |-> [feature_type |-> "osm_parking_space", vehicle_type |-> vt,
                     width_m |-> None, length_m |-> None,
                     area_m2 |-> None, classification_method |-> "absent"]]

\* C6: a polygon space that the reclassifier measures (width the shorter,
\* length the longer of the first two edges of its ring) is classified truck
\* if and only if width >= 3.5 m and length >= 13.0 m, and car otherwise,
\* whichever of the two edges comes first; 3.5 x 13.0 is truck and
\* 3.4 x 13.0 is car.
C6_TruckIffWideAndLong ==
    rec_pc = "loop" =>
        \A i \in 1..(idx - 1) :
            LET ring == InputFile[i].geometry.coordinates[1]
                class == data[i].properties.vehicle_type
            IN HasTwoEdges(InputFile[i]) =>
                  /\ class = SizeClass(ring)
                  /\ ring \in {RecRect(3500, 13000), RecRect(13000, 3500)} => class = "truck"
                  /\ ring \in {RecRect(3400, 13000), RecRect(13000, 3400)} => class = "car"

\* a 13.0 m x 3.5 m space tagged car has become truck and a 3.4 m x 13.0 m
\* space tagged truck has become car
C6_Witness ==
    /\ rec_pc = "loop" /\ idx = 3 /\ Len(files) = 1
    /\ InputFile[1] = PolygonFeature(RecRect(13000, 3500), "car")
    /\ data[1].properties.vehicle_type = "truck"
    /\ InputFile[2] = PolygonFeature(RecRect(3400, 13000), "truck")
    /\ data[2].properties.vehicle_type = "car"

\* C7: running the reclassifier on its own output gives, for every Polygon
\* and every Point feature, the same vehicle_type, width_m, length_m, area_m2
\* and classification_method as the first run gave.
C7_Idempotent ==
    \A r \in 2..(Len(files) - 1) :
        \A i \in DOMAIN files[r] :
            files[r][i].geometry.type \in {"Polygon", "Point"} =>
                files[r + 1][i].properties = files[r][i].properties

\* the second run has written its output; the first run had changed the
\* class of a Polygon feature, and the file has a Point feature
C7_Witness ==
    /\ Len(files) >= 3
    /\ \E i \in DOMAIN files[1] :
          /\ files[1][i].geometry.type = "Polygon"
          /\ files[2][i].properties.vehicle_type # files[1][i].properties.vehicle_type
    /\ \E i \in DOMAIN files[1] : files[1][i].geometry.type = "Point"

\* C11: reclassifying a Point feature leaves its vehicle_type and every other
\* property as they were and only sets classification_method to 'tag-based';
\* no width_m, length_m or area_m2 is added.
C11_PointOnlyTagged ==
    rec_pc = "loop" =>
        \A i \in 1..(idx - 1) :
            InputFile[i].geometry.type = "Point" =>
                /\ data[i].geometry = InputFile[i].geometry
                /\ data[i].properties.classification_method = "tag-based"
                /\ \A k \in DOMAIN data[i].properties \ {"classification_method"} :
                       data[i].properties[k] = InputFile[i].properties[k]
                /\ DOMAIN data[i].properties = DOMAIN InputFile[i].properties
                /\ data[i].properties.width_m = None
                /\ data[i].properties.length_m = None
                /\ data[i].properties.area_m2 = None

\* a Point feature tagged truck has been through the loop, and was counted
\* as a truck space
C11_Witness ==
    /\ rec_pc = "loop" /\ idx = 2 /\ Len(files) = 1
    /\ InputFile[1].geometry.type = "Point"
    /\ InputFile[1].properties.vehicle_type = "truck"
    /\ InputFile[1].properties.classification_method = "absent"
    /\ data[1].properties.classification_method = "tag-based"
    /\ truck_count = 1 /\ point_count = 1

\* the feature has the five properties of a size-based classification
SizeClassified(feature) ==
    /\ feature.properties.width_m # None
    /\ feature.properties.length_m # None
    /\ feature.properties.area_m2 # None
    /\ feature.properties.vehicle_type \in {"truck", "car"}
    /\ feature.properties.classification_method = "size-based (CROW ASVV 2021)"

\* the processed features i and j, of equal geometry, have equal size properties
SameSizeProperties(i, j) ==
    \A k \in {"width_m", "length_m", "area_m2", "vehicle_type", "classification_method"} :
        data[i].properties[k] = data[j].properties[k]

\* C12 (as stated): every Polygon feature whose ring has at least 4 vertices
\* leaves the reclassifier with width_m, length_m, area_m2, vehicle_type in
\* {truck, car} and a size-based classification_method, its vehicle_type
\* decided by the measured dimensions only and never by the previous tag.
C12_EveryPolygonSizeClassified ==
    rec_pc = "loop" =>
        \A i \in 1..(idx - 1) :
            (/\ InputFile[i].geometry.type = "Polygon"
             /\ Len(InputFile[i].geometry.coordinates[1]) >= 4) =>
                /\ SizeClassified(data[i])
                /\ \A j \in 1..(idx - 1) :
                       InputFile[j].geometry = InputFile[i].geometry => SameSizeProperties(i, j)

\* C12 (amended): the same of every Polygon feature whose ring has at least 4
\* vertices and whose first two edges both have a length above 0.
C12_MeasurablePolygonSizeClassified ==
    rec_pc = "loop" =>
        \A i \in 1..(idx - 1) :
            HasTwoEdges(InputFile[i]) =>
                /\ SizeClassified(data[i])
                /\ \A j \in 1..(idx - 1) :
                       InputFile[j].geometry = InputFile[i].geometry => SameSizeProperties(i, j)

\* two features of the same 3.4 m x 13.0 m ring, one tagged truck and one
\* tagged car, have been through the loop
C12_Witness ==
    /\ rec_pc = "loop" /\ idx = 3 /\ Len(files) = 1
    /\ InputFile[1] = PolygonFeature(RecRect(3400, 13000), "truck")
    /\ InputFile[2] = PolygonFeature(RecRect(3400, 13000), "car")
    /\ SizeClassified(data[1]) /\ SizeClassified(data[2])
    /\ data[1].properties.vehicle_type = "car"

(***************************************************************************)
(* Properties of fetch_overpass (checked under SpecOvp and SpecOvpFair)    *)
(***************************************************************************)
\* the time.sleep calls made after the outcome cause, in the order made
SleepsAfter(cause) == {k \in DOMAIN sleeps : sleeps[k].cause = cause}

\* the waits after the outcome cause grow with the attempt number, by the
\* same amount for every attempt
GrowsLinearly(cause) ==
    /\ \A i, j \in SleepsAfter(cause) :
          i < j => sleeps[j].seconds > sleeps[i].seconds
    /\ \A i, j, k, l \in SleepsAfter(cause) :
          (sleeps[j].seconds - sleeps[i].seconds) * (sleeps[l].attempt - sleeps[k].attempt)
              = (sleeps[l].seconds - sleeps[k].seconds) * (sleeps[j].attempt - sleeps[i].attempt)

\* the attempts that are over
AttemptsOver == {a \in 0..(requests_sent - 1) : a < attempt \/ ovp_pc = "returned"}

\* the waits the function made after the attempt a
WaitsAfter(a) == {sleeps[k].seconds : k \in {i \in DOMAIN sleeps : sleeps[i].attempt = a}}

\* C17 (as stated): after HTTP 429 and after a timeout alike, the wait before
\* the next attempt grows linearly with the attempt number, and no more than
\* retries attempts are made.
C17_LinearBackoffOnBoth ==
    /\ GrowsLinearly("429")
    /\ GrowsLinearly("Timeout")
    /\ requests_sent <= retries

\* C17 (amended): after HTTP 429 in attempt a the function waits
\* 60 * (a + 1) seconds, the last attempt included; after a timeout it waits
\* 30 seconds whatever the attempt, and not at all after the last attempt;
\* no more than retries attempts are made.
C17_LinearOn429FixedOnTimeout ==
    /\ requests_sent <= retries
    /\ GrowsLinearly("429")
    /\ \A a \in AttemptsOver :
          /\ responses[a + 1] = "429" => WaitsAfter(a) = {60 * (a + 1)}
          /\ responses[a + 1] = "Timeout" =>
                WaitsAfter(a) = IF a < retries - 1 THEN {30} ELSE {}

\* two timeouts and an HTTP 429 after the first attempt, all waited for
C17_Witness ==
    /\ ovp_pc = "returned"
    /\ Cardinality(SleepsAfter("Timeout")) >= 2
    /\ \E k \in SleepsAfter("429") : sleeps[k].attempt >= 1 /\ sleeps[k].seconds > 60

\* the requests that were answered with HTTP 200, whatever the body
Answered200 == {k \in 1..requests_sent : responses[k] \in {"200", "200 no JSON"}}

\* the requests that were answered with HTTP 200 and a body that parses
Parsed200 == {k \in 1..requests_sent : responses[k] = "200"}

\* the first of a non-empty set of requests
First(S) == CHOOSE k \in S : \A m \in S : k <= m

C18_DelayBetweenRequests ==
    \A k \in 1..(Len(timeline) - 1) :
        timeline[k].event = "request" =>
            timeline[k + 1] = Waited(timeline[k].region, 5)

(***************************************************************************)
(* Properties of fetch_all (checked under SpecFa)                          *)
(***************************************************************************)
\* C20: the scripts of the list are run once each, in list order, whatever
\* the return codes of the scripts before; main() returns 0 if every script
\* exited with return code 0 and 1 otherwise.
C20_EveryScriptRunOnce ==
    /\ Len(processes) <= Len(scripts)
    /\ \A k \in DOMAIN processes : processes[k].script = scripts[k]
    /\ fa_pc = "exited" =>
          /\ Len(processes) = Len(scripts)
          /\ exit_status \in {0, 1}
          /\ exit_status = 0 <=> \A k \in DOMAIN processes : processes[k].returncode = 0

\* the merge step has run after a failed fetch, and main() has returned 1
C20_Witness ==
    /\ fa_pc = "exited" /\ exit_status = 1
    /\ processes[1].returncode # 0
    /\ processes[Len(scripts)].script = "merge_parking_data.py"
    /\ processes[Len(scripts)].returncode = 0

(***************************************************************************)
(* Further properties of the reclassifier (checked under SpecRec)          *)
(***************************************************************************)
\* the stored width_m and length_m reach the truck thresholds (hundredths
\* of a metre)
StoredTruckSize(feature) ==
    feature.properties.width_m >= 350 /\ feature.properties.length_m >= 1300

\* C30 (as stated): a reclassified Polygon feature is truck if and only if
\* its stored width_m is >= 3.5 and its stored length_m is >= 13.0.
C30_TruckIffStoredSize ==
    rec_pc = "loop" =>
        \A i \in 1..(idx - 1) :
            HasTwoEdges(InputFile[i]) =>
                (data[i].properties.vehicle_type = "truck" <=> StoredTruckSize(data[i]))

\* C30 (amended): a reclassified Polygon feature is truck if and only if its
\* measured, unrounded width is >= 3.5 and length >= 13.0; a truck's stored
\* width_m and length_m are >= 3.5 and >= 13.0, and a feature whose stored
\* values are is measured no more than half a centimetre below the
\* thresholds, and can be a car.
C30_TruckIffMeasuredSize ==
    rec_pc = "loop" =>
        \A i \in 1..(idx - 1) :
            HasTwoEdges(InputFile[i]) =>
                LET ring == InputFile[i].geometry.coordinates[1]
                    sq1 == SquaredLength(ring[1], ring[2])
                    sq2 == SquaredLength(ring[2], ring[3])
                IN /\ data[i].properties.vehicle_type = SizeClass(ring)
                   /\ data[i].properties.vehicle_type = "truck" => StoredTruckSize(data[i])
                   /\ StoredTruckSize(data[i]) =>
                         Min(sq1, sq2) >= 3495 * 3495 /\ Max(sq1, sq2) >= 12995 * 12995

\* a 3.496 m x 13.0 m space has been stored with width_m 3.5 and length_m
\* 13.0 and classified car
C30_Witness ==
    /\ rec_pc = "loop" /\ idx >= 2 /\ Len(files) = 1
    /\ InputFile[1].geometry.coordinates = <<RecRect(3496, 13000)>>
    /\ data[1].properties.width_m = 350 /\ data[1].properties.length_m = 1300
    /\ data[1].properties.vehicle_type = "car"

(***************************************************************************)
(* Further properties of detect_parking_orientation (checked under         *)
(* SpecOri)                                                                *)
(***************************************************************************)
\* the snapping loop over the reference list refs, from its k-th entry on
RECURSIVE SnapInOrder(_, _, _)
SnapInOrder(angle, refs, k) ==
    IF k > Len(refs) THEN angle
    ELSE IF WithinTen(angle, refs[k]) THEN refs[k]
    ELSE SnapInOrder(angle, refs, k + 1)

\* the reference list in every order
ReferenceOrders ==
    {[k \in DOMAIN common_angles |-> common_angles[p[k]]] :
        p \in Permutations(DOMAIN common_angles)}

\* C29: every angle in [0, 180) is less than 10 degrees away from at most one
\* of the reference angles, and the angle returned is the one the snapping
\* loop gives with the reference list in any order.
C29_SnapOrderIndependent ==
    /\ ori_pc = "call" =>
          \A angle \in 0..359 :
              Cardinality({k \in DOMAIN common_angles :
                              WithinTen(angle, common_angles[k])}) <= 1
    /\ (ori_pc = "returned" /\ dominant_bin # None) =>
          \A refs \in ReferenceOrders : SnapInOrder(UnsnappedAngle, refs, 1) = ori_result

\* one line, the dominant bin is the one around 82.5 degrees, and 90 degrees
\* is returned
C29_Witness ==
    /\ ori_pc = "returned" /\ Len(image.lines) = 1
    /\ dominant_bin = 16 /\ ori_result = 180

(***************************************************************************)
(* Further properties of estimate_spaces_for_facilities (checked under     *)
(* SpecFac)                                                                *)
(***************************************************************************)
\* the target capacity passed to the estimator for the k-th area of the
\* facility in progress; 0 for an area without geometry, which is skipped
TargetOf(k) ==
    LET facility == candidates[fi]
        area == facility.osm_parking_areas[k]
    IN IF area.geometry = NoGeometry THEN 0
       ELSE LET area_m2 == calculate_polygon_area_m2(area.geometry)
            IN TargetCapacity(area, facility, area_m2,
                              AreaVehicleType(area.vehicle_type, area_m2))

\* C27: the target capacities passed to the estimator for the areas of a
\* facility with total_capacity > 0 sum to at most total_capacity.
C27_TargetsWithinTotalCapacity ==
    (fac_pc = "area" /\ candidates[fi].total_capacity > 0) =>
        /\ AreaProcessed => capacity = TargetOf(ai - 1)
        /\ SumTo([k \in 1..(ai - 1) |-> TargetOf(k)], ai - 1)
               <= candidates[fi].total_capacity

\* C28: the run ends with both files and the summary written, whatever the
\* analysis: it never ends in an exception.
C28_RunsToCompletion ==
    /\ fac_pc # "raised"
    /\ fac_pc = "done" => output_file = estimated_features /\ public_file = estimated_features

(***************************************************************************)
(* Properties of deduplicate_parking_spaces (checked under SpecDd)         *)
(***************************************************************************)
\* the positions of the list at which an osm_id occurs for the first time
FirstOccurrences(list) ==
    {i \in DOMAIN list : \A j \in 1..(i - 1) : list[j].osm_id # list[i].osm_id}

\* the k-th smallest element of a set of positions
Kth(S, k) == CHOOSE i \in S : Cardinality({j \in S : j <= i}) = k

\* C21: the returned list has pairwise distinct osm_id values and consists of
\* the first occurrence of every osm_id of the input, in the input's order;
\* the function applied to its result returns that result.
C21_FirstOccurrencesInOrder ==
    /\ dd_pc = "returned" =>
          /\ \A k, m \in DOMAIN unique_spaces :
                k # m => unique_spaces[k].osm_id # unique_spaces[m].osm_id
          /\ Len(unique_spaces) = Cardinality(FirstOccurrences(all_spaces))
          /\ \A k \in DOMAIN unique_spaces :
                unique_spaces[k] = all_spaces[Kth(FirstOccurrences(all_spaces), k)]
    /\ \A c \in 2..Len(dedup_calls) :
          dedup_calls[c].unique_spaces = dedup_calls[1].unique_spaces

\* the second call has returned; the first had dropped the second of three
\* features, a copy of the first from another region, and kept the third
C21_Witness ==
    /\ dd_pc = "returned" /\ Len(dedup_calls) = 2
    /\ LET first == dedup_calls[1]
       IN /\ Len(first.all_spaces) = 3 /\ Len(first.unique_spaces) = 2
          /\ first.all_spaces[2].osm_id = first.all_spaces[1].osm_id
          /\ first.all_spaces[2].region # first.all_spaces[1].region
          /\ first.unique_spaces = <<first.all_spaces[1], first.all_spaces[3]>>

\* C26: every OSM element (type and id) that has a feature in the input has
\* one in the returned list: only features of the same element are
\* collapsed.
C26_KeepsEveryElement ==
    dd_pc = "returned" =>
        \A i \in DOMAIN all_spaces :
            \E k \in DOMAIN unique_spaces :
                /\ unique_spaces[k].osm_type = all_spaces[i].osm_type
                /\ unique_spaces[k].osm_id = all_spaces[i].osm_id

(***************************************************************************)
(* Properties of merge_parking_data (checked under SpecMrg)                *)
(***************************************************************************)
\* the facilities recorded as duplicates of the facility c
DuplicatesOf(c) == {duplicates[n][1] : n \in {x \in DOMAIN duplicates : duplicates[x][2] = c}}

\* C22: a facility of the merged list into which duplicates were merged has
\* in 'sources' its own source and the source of every one of them.
C22_SourcesOfAllDuplicates ==
    mrg_pc \in {"merge", "merged"} =>
        \A k \in DOMAIN merged_facilities :
            LET c == CanonicalIndices[k]
            IN DuplicatesOf(c) # {} =>
                  /\ all_facilities[c].source \in merged_facilities[k].sources
                  /\ \A i \in DuplicatesOf(c) :
                        all_facilities[i].source \in merged_facilities[k].sources

\* C25: no facility that find_duplicates returns as canonical is itself a
\* key of the returned map, and every facility is in the merged list or was
\* merged into one that is.
C25_CanonicalNotDuplicate ==
    mrg_pc \in {"merge", "merged"} =>
        /\ \A n \in DOMAIN duplicates : duplicates[n][2] \notin DictKeys(duplicates)
        /\ \A i \in DOMAIN all_facilities :
              \/ i \notin DictKeys(duplicates)
              \/ DictGet(duplicates, i) \notin DictKeys(duplicates)

(***************************************************************************)
(* Properties of split_by_province (checked under SpecSpl)                 *)
(***************************************************************************)
\* the lists the feature at the position p of the input is in: province
\* keys, and "" for the unassigned list
BucketsOf(p) ==
    {PROVINCES[k].key : k \in {x \in DOMAIN PROVINCES :
                                \E n \in DOMAIN province_data[x] :
                                    province_data[x][n].position = p}}
        \cup (IF \E n \in DOMAIN unassigned : unassigned[n].position = p THEN {""} ELSE {})

\* the number of entries the feature at the position p has in all lists
EntriesOf(p) ==
    Cardinality({<<k, n>> \in (DOMAIN PROVINCES) \X (1..MaxSplit) :
                    n <= Len(province_data[k]) /\ province_data[k][n].position = p})
        + Cardinality({n \in DOMAIN unassigned : unassigned[n].position = p})

\* the boxes that contain the centroid of the feature at the position p
BoxesAround(p) ==
    LET c == get_feature_centroid(split_features[p].geometry)
    IN {k \in DOMAIN PROVINCES :
           /\ PROVINCES[k].bounds.min_lat * c.count <= c.lat_sum
           /\ c.lat_sum <= PROVINCES[k].bounds.max_lat * c.count
           /\ PROVINCES[k].bounds.min_lon * c.count <= c.lon_sum
           /\ c.lon_sum <= PROVINCES[k].bounds.max_lon * c.count}

\* C23: every feature the loop has handled is in exactly one list, that of
\* the first province in PROVINCES order whose box contains its centroid, or
\* the unassigned list when no box does; the sizes of the province lists and
\* of the unassigned list add up to the number of features handled, which is
\* the total at the end.
C23_ExactlyOneBucket ==
    spl_pc # "idle" =>
        /\ \A p \in 1..(feature_i - 1) :
              /\ EntriesOf(p) = 1
              /\ BucketsOf(p) =
                    IF BoxesAround(p) = {} THEN {""}
                    ELSE {PROVINCES[CHOOSE k \in BoxesAround(p) :
                                       \A j \in BoxesAround(p) : k <= j].key}
        /\ SumLengths(province_data, Len(PROVINCES)) + Len(unassigned) = feature_i - 1
        /\ spl_pc \in {"done", "raised"} =>
              total_assigned + Len(unassigned) = Len(split_features)

\* the loop is over; a feature whose centroid is in the boxes of several
\* provinces is in one list only, and one outside every box is unassigned
C23_Witness ==
    /\ spl_pc = "done" /\ Len(split_features) = 3
    /\ \E p \in 1..3 : Cardinality(BoxesAround(p)) >= 2 /\ EntriesOf(p) = 1
    /\ \E p \in 1..3 : BoxesAround(p) = {} /\ BucketsOf(p) = {""}

(***************************************************************************)
(* C24: pagination of fetch_socrata                                        *)
(***************************************************************************)
\* the records of the pages received, one after the other in the order of
\* the requests
RECURSIVE Concatenation(_, _)
Concatenation(received, k) ==
    IF k > Len(received) THEN <<>>
    ELSE (IF received[k].count > 0
             THEN <<Chunk((k - 1) * limit, received[k].count)>>
             ELSE <<>>) \o Concatenation(received, k + 1)

FullPage(page) == page.status = "ok" /\ page.count = limit

LastPage(page) == page.status = "ok" /\ page.count < limit

\* C24: with paginate=True the requests are at the offsets 0, limit,
\* 2*limit, ... in that order, each with $limit = limit; a request is sent
\* only after full pages, so the call stops after the first page that is
\* empty or shorter than limit, and then returns the records of all the
\* pages received in order; a call that ends with a failed request returns
\* the empty list, whatever was received before.
C24_PagesInOrderOrNothing ==
    paginate =>
        /\ Len(pages) = Len(page_requests)
        /\ \A k \in 1..Len(page_requests) :
              page_requests[k] = Requested_Page(limit, (k - 1) * limit)
        /\ \A k \in 1..(Len(pages) - 1) : FullPage(pages[k])
        /\ soc_pc = "call" => \A k \in 1..Len(pages) : FullPage(pages[k])
        /\ (soc_pc = "returned" /\ LastPage(pages[Len(pages)])) =>
              soc_result = Concatenation(pages, 1)
        /\ (soc_pc = "returned" /\ pages[Len(pages)].status = "error") =>
              soc_result = <<>>

\* two full pages and a short one were received and returned
C24_Witness ==
    /\ paginate /\ soc_pc = "returned" /\ Len(pages) = 3
    /\ pages[3].status = "ok" /\ pages[3].count = 2
    /\ Len(soc_result) = 3 /\ soc_result[2] = Chunk(limit, limit)

\* a request failed after two pages had been received
C24_FailureWitness ==
    /\ paginate /\ soc_pc = "returned" /\ Len(pages) = 3
    /\ pages[3].status = "error" /\ Len(all_data) = 2 /\ soc_result = <<>>

====
